---------------------------- MODULE Spec2Model ----------------------------
(***************************************************************************)
(* Model of the parallel external sort of coreutils-rs: the sort           *)
(* orchestrator (src/bin/sort.rs), the sorted runs it merges and the       *)
(* thread pool (src/executor.rs) that runs its jobs.                       *)
(*                                                                         *)
(* Bytes are naturals, a Line is a sequence of bytes without the newline,  *)
(* Option<T> is a sequence of length 0 (None) or 1 (Some).  Positions in   *)
(* the binary heap are 0-based as in the source; Get() reads them from the  *)
(* 1-based TLA+ sequence.                                                   *)
(***************************************************************************)
EXTENDS Integers, Sequences, FiniteSets, TLC

\* ------------------------------------------------------------- bounds
\* longest input stream, in bytes
MaxInputLen == 4
\* largest --batch-size
MaxBatchSize == 2
\* largest --buffer-size (0 stands for "not given")
MaxBufferSize == 1
\* largest --parallel
MaxThreads == 2
\* longest input of the family of equal one-byte lines
MaxRepeat == 10
\* most jobs the caller of an Executor submits
MaxJobs == 3
\* longest stream a ChunkedReader reads, in bytes
MaxStreamLen == 6
\* largest max_chunk_size
MaxChunkSize == 4
\* most calls of next() after the reader gave up its input
MaxNoneCalls == 2
\* most lines of the run drain_until() is called on
MaxRunLines == 3
\* longest line of that run, in bytes
MaxLineLen == 2
\* longest input of wc, in bytes
MaxWcLen == 3
\* most input arguments of sort
MaxArgs == 2
\* longest stream of an input argument, in bytes and failed reads
MaxArgLen == 2

\* ---------------------------------------------------- program constants
N_WAY_MERGE == 5
\* b'\n'
NL == 10
\* the bytes a line is made of
LineBytes == {1, 2}

VARIABLES
    input,          \* the bytes of the input stream (never changes)
    batch_size,     \* payload.batch_size
    buffer_opt,     \* payload.buffer_size: 0 is None, b >= 1 is Some(b)
    sort_threads,   \* payload.sort_threads
    line_iter,      \* the bytes line_iter has not read yet
    pc,             \* where sort() is
    exhausted,      \* sort(): exhausted
    bytes,          \* sort(): bytes
    batches,        \* sort(): batches
    lines,          \* sort(): the batch collected, not yet submitted
    jobs,           \* sort(): the merge jobs of this round, not yet submitted
    chunks,         \* the registry Arc<Mutex<Vec<SortedChunk>>>
    sender,         \* ThreadPool.sender is alive (not dropped)
    queue,          \* the jobs buffered in the sync_channel
    recv_lock,      \* holder of the Mutex<Receiver>: 0 is free, else the worker
    wpc,            \* each worker: "idle", "recv", "run" or "exited"
    wjob,           \* each worker: the job it received
    joined,         \* finish(): how many threads are joined
    heap,           \* the final merge's BinaryHeap
    stdout,         \* the bytes written to the output
    next_id,        \* how many jobs submit() accepted (history)
    ran,            \* the jobs run, id and kind, in the order they ran (history)
    executor,       \* what runs the jobs: "ThreadPool", or an Executor variant
    poisoned,       \* the Mutex<Receiver> is poisoned
    reader,         \* a ChunkedReader: input, delimiter, max_chunk_size, next_buf
    call,           \* the locals of the ChunkedReader::next() in progress
    items,          \* what the calls of next() returned, in order (history)
    inputs,         \* payload.inputs (never changes)
    bytes_total,    \* wc: the AtomicU64 bytes_total
    lines_total,    \* wc: the AtomicU64 lines_total
    chunks_lock     \* holder of the registry's Mutex: 0 is free, else the thread

\* the state of sort() and of the pool that runs its jobs
sortVars == <<input, batch_size, buffer_opt, sort_threads, line_iter, pc, exhausted,
              bytes, batches, lines, jobs, chunks, sender, queue, recv_lock, wpc,
              wjob, joined, heap, stdout, next_id, ran>>

\* the state of a ChunkedReader and of its caller
readerVars == <<reader, call, items>>

\* the totals the jobs of wc add to
wcVars == <<bytes_total, lines_total>>

vars == <<sortVars, executor, poisoned, readerVars, wcVars, inputs, chunks_lock>>

\* ------------------------------------------------------------ helpers
None == <<>>
Some(x) == <<x>>
IsSome(o) == o # <<>>
Unwrap(o) == o[1]

Get(data, i) == data[i + 1]
Put(data, i, x) == [data EXCEPT ![i + 1] = x]

\* all sequences over S of length at most n
RECURSIVE SeqsUpTo(_, _)
SeqsUpTo(S, n) ==
    IF n = 0 THEN {<<>>}
    ELSE LET shorter == SeqsUpTo(S, n - 1)
         IN  shorter \cup {Append(s, x) : s \in {t \in shorter : Len(t) = n - 1}, x \in S}

\* ------------------------------------------------- lines and their order
\* Ord for Box<[u8]>: byte-wise lexicographic; -1 Less, 0 Equal, 1 Greater
RECURSIVE LineCmp(_, _)
LineCmp(a, b) ==
    IF a = <<>> /\ b = <<>> THEN 0
    ELSE IF a = <<>> THEN -1
    ELSE IF b = <<>> THEN 1
    ELSE IF Head(a) < Head(b) THEN -1
    ELSE IF Head(a) > Head(b) THEN 1
    ELSE LineCmp(Tail(a), Tail(b))

\* BufRead::split(b'\n'), one item: <<Option<line>, the bytes left>>
RECURSIVE SplitScan(_, _)
SplitScan(acc, rest) ==
    IF rest = <<>> THEN <<Some(acc), <<>>>>
    ELSE IF Head(rest) = NL THEN <<Some(acc), Tail(rest)>>
    ELSE SplitScan(Append(acc, Head(rest)), Tail(rest))

SplitNext(bs) == IF bs = <<>> THEN <<None, <<>>>> ELSE SplitScan(<<>>, bs)

\* every line a Split iterator yields
RECURSIVE SplitAll(_)
SplitAll(bs) ==
    LET r == SplitNext(bs)
    IN  IF IsSome(r[1]) THEN <<Unwrap(r[1])>> \o SplitAll(r[2]) ELSE <<>>

\* write_all(line) then write_all(b"\n")
WriteLine(sink, line) == sink \o line \o <<NL>>


\* ----------------------------------------------------------- SortedChunk
\* struct SortedChunk { merged, source, head }.  source is LineIterator::Vec
\* (file = FALSE, the lines left in vec) or LineIterator::File (file = TRUE,
\* the bytes of the temporary file not read yet in fbytes).
MkChunk(m, f, v, b, h) == [merged |-> m, file |-> f, vec |-> v, fbytes |-> b, head |-> h]

\* LineIterator::next: <<Option<line>, the source left>>
SourceNext(c) ==
    IF c.file
    THEN LET r == SplitNext(c.fbytes) IN <<r[1], [c EXCEPT !.fbytes = r[2]]>>
    ELSE IF c.vec = <<>> THEN <<None, c>>
         ELSE <<Some(Head(c.vec)), [c EXCEPT !.vec = Tail(c.vec)]>>

\* Iterator::next for SortedChunk: <<the old head, the chunk with the next head>>
ChunkNext(c) ==
    LET r == SourceNext(c)
    IN  <<c.head, [r[2] EXCEPT !.head = r[1]]>>

\* mutant of ChunkNew: the head cache is not primed (me.next() left out)
ChunkNewUnprimed(ls) == MkChunk(FALSE, FALSE, ls, <<>>, None)

\* SortedChunk::new
ChunkNew(ls) == ChunkNext(MkChunk(FALSE, FALSE, ls, <<>>, None))[2]

\* mutant of is_merged: no run counts as merged
is_merged_never(c) == FALSE

is_flushed(c) == c.file
is_merged(c) == c.merged
Peek(c) == c.head

\* SortedChunk::drain: the sink after every line left is written
RECURSIVE Drain(_, _)
Drain(c, sink) ==
    LET r == ChunkNext(c)
    IN  IF IsSome(r[1]) THEN Drain(r[2], WriteLine(sink, Unwrap(r[1]))) ELSE sink

\* mutant of BeyondLimit: the loop also ends at a head equal to the limit
BeyondOrAtLimit(c, limit) == IsSome(Peek(c)) /\ LineCmp(Unwrap(Peek(c)), limit) >= 0

\* the test that ends drain_until's loop: the new head is beyond the limit
BeyondLimit(c, limit) == IsSome(Peek(c)) /\ LineCmp(Unwrap(Peek(c)), limit) = 1

\* SortedChunk::drain_until: <<exhausted, the chunk left, the sink>>
RECURSIVE DrainUntil(_, _, _)
DrainUntil(c, sink, limit) ==
    LET r == ChunkNext(c)
    IN  IF ~IsSome(r[1]) THEN <<TRUE, r[2], sink>>
        ELSE LET out == WriteLine(sink, Unwrap(r[1]))
             IN  IF BeyondLimit(r[2], limit) THEN <<FALSE, r[2], out>>
                 ELSE DrainUntil(r[2], out, limit)

\* Ord for SortedChunk: the heads compared in reverse; Equal without a head
ChunkCmp(self, other) ==
    IF IsSome(Peek(self)) /\ IsSome(Peek(other))
    THEN LineCmp(Unwrap(Peek(other)), Unwrap(Peek(self)))
    ELSE 0

Le(a, b) == ChunkCmp(a, b) <= 0
Ge(a, b) == ChunkCmp(a, b) >= 0
Lt(a, b) == ChunkCmp(a, b) < 0

\* ------------------------------------------------------------ BinaryHeap
\* std::collections::BinaryHeap<SortedChunk> as sort.rs uses it.  A hole is
\* (data, pos, elt): elt is taken out of data at pos and put back at the end.

\* sift_up(start, pos)
RECURSIVE SiftUpHole(_, _, _, _)
SiftUpHole(data, start, pos, elt) ==
    IF pos > start
    THEN LET parent == (pos - 1) \div 2
         IN  IF Le(elt, Get(data, parent)) THEN Put(data, pos, elt)
             ELSE SiftUpHole(Put(data, pos, Get(data, parent)), start, parent, elt)
    ELSE Put(data, pos, elt)

SiftUp(data, start, pos) == SiftUpHole(data, start, pos, Get(data, pos))

\* the greater of the two children child and child + 1
GreaterChild(data, child) == IF Le(Get(data, child), Get(data, child + 1)) THEN child + 1 ELSE child

\* sift_down_range(pos, end)
RECURSIVE SiftDownHole(_, _, _, _)
SiftDownHole(data, pos, end, elt) ==
    LET child == 2 * pos + 1
    IN  IF child + 2 <= end
        THEN LET c == GreaterChild(data, child)
             IN  IF Ge(elt, Get(data, c)) THEN Put(data, pos, elt)
                 ELSE SiftDownHole(Put(data, pos, Get(data, c)), c, end, elt)
        ELSE IF child = end - 1 /\ Lt(elt, Get(data, child))
             THEN Put(Put(data, pos, Get(data, child)), child, elt)
             ELSE Put(data, pos, elt)

SiftDown(data, pos) == SiftDownHole(data, pos, Len(data), Get(data, pos))

\* sift_down_to_bottom(pos): the hole goes to a leaf, then the element sifts up
RECURSIVE ToBottomHole(_, _, _, _)
ToBottomHole(data, start, pos, elt) ==
    LET end == Len(data)
        child == 2 * pos + 1
    IN  IF child + 2 <= end
        THEN LET c == GreaterChild(data, child)
             IN  ToBottomHole(Put(data, pos, Get(data, c)), start, c, elt)
        ELSE IF child = end - 1
             THEN SiftUp(Put(Put(data, pos, Get(data, child)), child, elt), start, child)
             ELSE SiftUp(Put(data, pos, elt), start, pos)

SiftDownToBottom(data, pos) == ToBottomHole(data, pos, pos, Get(data, pos))

\* rebuild(): sift_down(n) for n = len/2 - 1 down to 0
RECURSIVE RebuildFrom(_, _)
RebuildFrom(data, n) == IF n > 0 THEN RebuildFrom(SiftDown(data, n - 1), n - 1) ELSE data

\* BinaryHeap::from(vec), which collect() calls
HeapFrom(v) == RebuildFrom(v, Len(v) \div 2)

\* BinaryHeap::pop on a heap that is not empty: <<the item, the heap left>>
HeapPop(data) ==
    LET n == Len(data)
        last == data[n]
        front == SubSeq(data, 1, n - 1)
    IN  IF front = <<>> THEN <<last, <<>>>>
        ELSE <<front[1], SiftDownToBottom(Put(front, 0, last), 0)>>

\* BinaryHeap::push
HeapPush(data, item) == SiftUp(Append(data, item), 0, Len(data))

\* merge.peek().and_then(|c| c.peek()): the head of the heap's top, if any
PeekLimit(data) == IF data = <<>> THEN None ELSE Peek(data[1])

\* ------------------------------------------------------------------ jobs
\* enum SortJob: Sort(lines), Merge(runs) or MergeFlush(runs); id numbers the
\* jobs in the order submit() accepts them (history, not in the source).
MkJob(k, ls, rs) == [kind |-> k, lines |-> ls, runs |-> rs, id |-> 0]
NoJob == MkJob("None", <<>>, <<>>)

\* lines.sort_unstable(): equal lines are the same bytes, so the result is
\* the one sorted permutation
\* mutant of InsertLine: a line equal to one of sorted is dropped
RECURSIVE InsertLineUnique(_, _)
InsertLineUnique(sorted, l) ==
    IF sorted = <<>> THEN <<l>>
    ELSE IF LineCmp(l, Head(sorted)) = 0 THEN sorted
    ELSE IF LineCmp(l, Head(sorted)) < 0 THEN <<l>> \o sorted
    ELSE <<Head(sorted)>> \o InsertLineUnique(Tail(sorted), l)

RECURSIVE InsertLine(_, _)
InsertLine(sorted, l) ==
    IF sorted = <<>> THEN <<l>>
    ELSE IF LineCmp(l, Head(sorted)) <= 0 THEN <<l>> \o sorted
    ELSE <<Head(sorted)>> \o InsertLine(Tail(sorted), l)

RECURSIVE SortUnstable(_)
SortUnstable(ls) == IF ls = <<>> THEN <<>> ELSE InsertLine(SortUnstable(Tail(ls)), Head(ls))

\* run_sort: the chunk pushed to the registry
run_sort(ls) == ChunkNew(SortUnstable(ls))

\* the inner loop of run_merge: <<the chunk left, merged>>
RECURSIVE MergeUntil(_, _, _)
MergeUntil(c, merged, limit) ==
    LET r == ChunkNext(c)
    IN  IF ~IsSome(r[1]) THEN <<r[2], merged>>
        ELSE LET m == Append(merged, Unwrap(r[1]))
             IN  IF BeyondLimit(r[2], limit) THEN <<r[2], m>>
                 ELSE MergeUntil(r[2], m, limit)

\* chunk.for_each(|l| merged.push(l))
RECURSIVE MergeAll(_, _)
MergeAll(c, merged) ==
    LET r == ChunkNext(c)
    IN  IF IsSome(r[1]) THEN MergeAll(r[2], Append(merged, Unwrap(r[1]))) ELSE merged

\* the while loop of run_merge: the lines merged
RECURSIVE MergeLoop(_, _)
MergeLoop(merge, merged) ==
    IF merge = <<>> THEN merged
    ELSE LET p == HeapPop(merge)
             limit == PeekLimit(p[2])
         IN  IF IsSome(limit)
             THEN LET r == MergeUntil(p[1], merged, Unwrap(limit))
                  IN  IF IsSome(Peek(r[1]))
                      THEN MergeLoop(HeapPush(p[2], r[1]), r[2])
                      ELSE MergeLoop(p[2], r[2])
             ELSE MergeLoop(p[2], MergeAll(p[1], merged))

\* run_merge: the chunk pushed to the registry
run_merge(rs) == [ChunkNew(MergeLoop(HeapFrom(rs), <<>>)) EXCEPT !.merged = TRUE]

\* one turn of the loop run_merge_flush and the final merge share: the popped
\* chunk is drained to the next head, or to its end when the heap's top has
\* none: <<the heap, the sink>>
DrainStep(data, sink) ==
    LET p == HeapPop(data)
        limit == PeekLimit(p[2])
    IN  IF IsSome(limit)
        THEN LET r == DrainUntil(p[1], sink, Unwrap(limit))
             IN  IF ~r[1] THEN <<HeapPush(p[2], r[2]), r[3]>> ELSE <<p[2], r[3]>>
        ELSE <<p[2], Drain(p[1], sink)>>

\* the while loop of run_merge_flush: the bytes of the temporary file
RECURSIVE FlushLoop(_, _)
FlushLoop(merge, sink) ==
    IF merge = <<>> THEN sink
    ELSE LET s == DrainStep(merge, sink) IN FlushLoop(s[1], s[2])

\* run_merge_flush: the file-backed chunk pushed to the registry
run_merge_flush(rs) ==
    ChunkNext(MkChunk(TRUE, TRUE, <<>>, FlushLoop(HeapFrom(rs), <<>>), None))[2]

\* Job::run for SortJob: the chunk the job pushes to the registry
JobRun(job) ==
    CASE job.kind = "Sort" -> run_sort(job.lines)
      [] job.kind = "Merge" -> run_merge(job.runs)
      [] job.kind = "MergeFlush" -> run_merge_flush(job.runs)

\* --------------------------------------------------------- ChunkedReader
\* The stream R is the bytes it has not yielded yet; buf is modelled by its
\* first pos bytes (the zeroes resize() pads it with are overwritten or cut
\* off before buf is read), so pos is Len(buf).

\* no ChunkedReader is constructed
NoReader == [input |-> None, delimiter |-> NL, max_chunk_size |-> 1, next_buf |-> <<>>]

\* ChunkedReader::new(input, delimiter, max_chunk_size), max_chunk_size > 0
NewReader(stream, delim, size) ==
    [input |-> Some(stream), delimiter |-> delim, max_chunk_size |-> size, next_buf |-> <<>>]

\* no call of next() is in progress
NoCall == [active |-> FALSE, input |-> <<>>, buf |-> <<>>, start |-> 0]

\* what a call of next() returned: None, Some(Err(e)), Some(Ok(Chunk(data))) or
\* Some(Ok(Bail(data, read))); start is the offset in the stream of the first
\* byte the call had in buf and eof tells that its read() returned Ok(0)
Item(k, d, r, st, e) == [kind |-> k, data |-> d, read |-> r, start |-> st, eof |-> e]

\* the bytes read() has yielded so far, given the bytes the stream has left
Consumed(rest) == Len(input) - Len(rest)

\* buf.iter().rposition(|b| *b == delimiter): the 0-based index of the last
\* delimiter of buf, or None
RECURSIVE RPositionFrom(_, _, _)
RPositionFrom(buf, delim, i) ==
    IF i = 0 THEN None
    ELSE IF buf[i] = delim THEN Some(i - 1)
    ELSE RPositionFrom(buf, delim, i - 1)

\* mutant of RPosition: position() instead of rposition(), the first delimiter
RPositionFirst(buf, delim) ==
    IF \E i \in DOMAIN buf : buf[i] = delim
    THEN Some((CHOOSE i \in DOMAIN buf : buf[i] = delim /\ \A j \in 1 .. i - 1 : buf[j] # delim) - 1)
    ELSE None

RPosition(buf, delim) == RPositionFrom(buf, delim, Len(buf))

\* buf.split_off(at): <<the bytes buf keeps, the bytes split off>>
SplitOff(buf, at) == <<SubSeq(buf, 1, at), SubSeq(buf, at + 1, Len(buf))>>

\* mutant of Pop: the last byte stays
PopNone(buf) == buf

\* buf.pop(): buf without its last byte
Pop(buf) == SubSeq(buf, 1, Len(buf) - 1)

\* mutant of CutAt: the bytes after the delimiter are not carried over
CutAtNoCarry(buf, delim_pos) == [chunk |-> Pop(SplitOff(buf, delim_pos + 1)[1]), next_buf |-> <<>>]

\* the Some(pos) arm: next_buf = buf.split_off(pos + 1); buf.pop()
CutAt(buf, delim_pos) ==
    LET s == SplitOff(buf, delim_pos + 1)
    IN  [chunk |-> Pop(s[1]), next_buf |-> s[2]]

\* the exhausted arm: if buf.last() == Some(&delimiter) { buf.pop(); }
StripTrailing(buf, delim) ==
    IF buf # <<>> /\ buf[Len(buf)] = delim THEN Pop(buf) ELSE buf

\* mutant of EofReturn: no Chunk for a call that has no bytes to return
EofReturnNoneIfEmpty(buf, delim) ==
    IF buf = <<>> THEN None ELSE Some(StripTrailing(buf, delim))

\* the exhausted arm: return Some(Ok(ChunkedItem::Chunk(buf))), whatever buf holds
EofReturn(buf, delim) == Some(StripTrailing(buf, delim))

\* mutant of InputAfter: the input is also put back when the reader bails
InputAfterBailPutBack(outcome, rest) ==
    IF outcome \in {"cut", "bail"} THEN Some(rest) ELSE None

\* mutant of InputAfter: the input is also put back at the end of the stream
InputAfterEofPutBack(outcome, rest) ==
    IF outcome \in {"cut", "eof"} THEN Some(rest) ELSE None

\* mutant of InputAfter: the input is also put back after a failed read
InputAfterErrPutBack(outcome, rest) ==
    IF outcome \in {"cut", "err"} THEN Some(rest) ELSE None

\* self.input when next() returns: put back after a cut ("cut"); left None
\* when the input went to the caller ("bail") or was dropped ("eof", "err")
InputAfter(outcome, rest) == IF outcome = "cut" THEN Some(rest) ELSE None

\* mutant of Room: the buffer is resized to max_chunk_size past its carry
RoomPastCarry(buf) == reader.max_chunk_size

\* buf[pos..].len(): the bytes a read() can store, buf being max_chunk_size long
Room(buf) == reader.max_chunk_size - Len(buf)

\* the calls of next() made after the reader gave up its input
NoneCalls == Cardinality({i \in DOMAIN items : items[i].kind = "None"})

\* next() with self.input == None: return None
CrNone ==
    /\ ~call.active
    /\ reader.input = None
    /\ NoneCalls < MaxNoneCalls
    /\ items' = Append(items, Item("None", <<>>, <<>>, 0, FALSE))
    /\ UNCHANGED <<sortVars, wcVars, inputs, chunks_lock, executor, poisoned, reader, call>>

\* next(): self.input.take(), mem::replace(&mut self.next_buf, vec![]),
\* pos = buf.len(), buf.resize(max_chunk_size, 0)
CrCall ==
    /\ ~call.active
    /\ IsSome(reader.input)
    /\ call' = [active |-> TRUE, input |-> Unwrap(reader.input), buf |-> reader.next_buf,
                start |-> Consumed(Unwrap(reader.input)) - Len(reader.next_buf)]
    /\ reader' = [reader EXCEPT !.input = None, !.next_buf = <<>>]
    /\ UNCHANGED <<sortVars, wcVars, inputs, chunks_lock, executor, poisoned, items>>

\* pos == self.max_chunk_size
BufferFull(buf) == Len(buf) = reader.max_chunk_size

\* input.read(&mut buf[pos..]) returns Ok(n), n > 0, and the buffer is not full
\* yet: the loop goes on.  A read may be short: n is any count from one byte
\* to the bytes the stream has left and the room in buf.
CrRead ==
    /\ call.active
    /\ \E n \in 1 .. Len(call.input) :
           LET buf == call.buf \o SubSeq(call.input, 1, n)
           IN  /\ n <= Room(call.buf)
               /\ ~BufferFull(buf)
               /\ call' = [call EXCEPT !.buf = buf,
                                       !.input = SubSeq(call.input, n + 1, Len(call.input))]
    /\ UNCHANGED <<sortVars, wcVars, inputs, chunks_lock, executor, poisoned, reader, items>>

\* input.read() returns Ok(n) and fills the buffer: break false, then the
\* buffer is cut at its last delimiter (a Chunk, the rest carried over and
\* the input put back) or returned whole with the input (a Bail)
CrReadFull ==
    /\ call.active
    /\ \E n \in 1 .. Len(call.input) :
           LET buf == call.buf \o SubSeq(call.input, 1, n)
               rest == SubSeq(call.input, n + 1, Len(call.input))
               delim_pos == RPosition(buf, reader.delimiter)
           IN  /\ n <= Room(call.buf)
               /\ BufferFull(buf)
               /\ IF IsSome(delim_pos)
                  THEN LET c == CutAt(buf, Unwrap(delim_pos))
                       IN  /\ items' = Append(items, Item("Chunk", c.chunk, <<>>, call.start, FALSE))
                           /\ reader' = [reader EXCEPT !.input = InputAfter("cut", rest),
                                                       !.next_buf = c.next_buf]
                  ELSE /\ items' = Append(items, Item("Bail", buf, rest, call.start, FALSE))
                       /\ reader' = [reader EXCEPT !.input = InputAfter("bail", rest)]
    /\ call' = NoCall
    /\ UNCHANGED <<sortVars, wcVars, inputs, chunks_lock, executor, poisoned>>

\* input.read() returns Ok(0), the end of the stream: break true, then
\* buf.resize(pos, 0), the trailing delimiter is removed and the Chunk returned
CrEof ==
    /\ call.active
    /\ call.input = <<>>
    /\ LET r == EofReturn(call.buf, reader.delimiter)
       IN  items' = Append(items, IF IsSome(r) THEN Item("Chunk", Unwrap(r), <<>>, call.start, TRUE)
                                  ELSE Item("None", <<>>, <<>>, call.start, TRUE))
    /\ reader' = [reader EXCEPT !.input = InputAfter("eof", call.input)]
    /\ call' = NoCall
    /\ UNCHANGED <<sortVars, wcVars, inputs, chunks_lock, executor, poisoned>>

\* input.read() returns Err(e): return Some(Err(e)); the input is dropped
CrErr ==
    /\ call.active
    /\ items' = Append(items, Item("Err", <<>>, <<>>, call.start, FALSE))
    /\ reader' = [reader EXCEPT !.input = InputAfter("err", call.input)]
    /\ call' = NoCall
    /\ UNCHANGED <<sortVars, wcVars, inputs, chunks_lock, executor, poisoned>>

\* ------------------------------------------------------------ ThreadPool
\* ThreadPool.threads: the worker threads spawned (none without a pool)
Workers == DOMAIN wpc

\* mutant of Capacity: the channel buffers one job more than the pool has workers
CapacityOneMore == sort_threads + 1

\* sync_channel::<J>(size): the number of jobs the channel buffers
Capacity == sort_threads

\* mutant of CanSend: send also blocks while every worker is running a job
CanSendUnlessAllBusy ==
    sender /\ Len(queue) < sort_threads /\ \E w \in Workers : wpc[w] # "run"

\* a thread that ended by a panic: in job.run(), or in lock().unwrap()
Panicked(w) == wpc[w] \in {"panicked", "lock_panicked"}

\* mutant of Disconnected: a clone of the receiver outlives the workers
DisconnectedNever == FALSE

\* mutant of CanSend: send() finds no room, whatever the workers take
CanSendNever == FALSE

\* every worker thread has ended, so every clone of the Arc that holds the
\* Receiver is dropped: the channel is disconnected
Disconnected == \A w \in Workers : Panicked(w) \/ wpc[w] = "exited"

\* sender.send(job) returns Ok: the buffer has room and the receiver is alive.
\* It blocks while the buffer is full and the receiver is alive.
CanSend == sender /\ Len(queue) < Capacity /\ ~Disconnected

\* ThreadPool::submit / sender.send: the queue after the job is accepted
Send(job) == Append(queue, [job EXCEPT !.id = next_id + 1])

\* The MutexGuard of thread_recv.lock() is a temporary of the `while let`
\* scrutinee: it lives to the end of the loop body, so the worker that
\* received a job still holds the receiver's lock while it runs the job.
LockAfterRecv(w) == w

\* mutant of JoinReady: finish() does not wait for the thread
JoinNoWait(w) == TRUE

\* mutant of JoinReady: join() never returns
JoinNever(w) == FALSE

\* mutant of JoinReady: join() returns for a thread that waits for a job
JoinWhenIdle(w) == wpc[w] \in {"idle", "recv", "exited"}

\* thread.join() returns: the thread has left its loop
JoinReady(w) == wpc[w] = "exited"

\* thread_recv.lock(): a worker at the top of its loop takes the receiver's lock
WorkerLock(w) ==
    /\ wpc[w] = "idle"
    /\ recv_lock = 0
    /\ ~poisoned
    /\ recv_lock' = w
    /\ wpc' = [wpc EXCEPT ![w] = "recv"]
    /\ UNCHANGED <<readerVars, wcVars, inputs, chunks_lock, executor, poisoned,
                   input, batch_size, buffer_opt, sort_threads, line_iter, pc,
                   exhausted, bytes, batches, lines, jobs, chunks, sender, queue,
                   wjob, joined, heap, stdout, next_id, ran>>

\* mutant of Recv: the job received stays in the queue
RecvKeep == [job |-> Head(queue), rest |-> queue]

\* Receiver::recv on a queue that holds a job: the job received and the queue left
Recv == [job |-> Head(queue), rest |-> Tail(queue)]

\* recv() returns Ok(job): the oldest job of the queue
WorkerRecv(w) ==
    /\ wpc[w] = "recv"
    /\ queue # <<>>
    /\ wjob' = [wjob EXCEPT ![w] = Recv.job]
    /\ queue' = Recv.rest
    /\ wpc' = [wpc EXCEPT ![w] = "run"]
    /\ recv_lock' = LockAfterRecv(w)
    /\ UNCHANGED <<readerVars, wcVars, inputs, chunks_lock, executor, poisoned,
                   input, batch_size, buffer_opt, sort_threads, line_iter, pc,
                   exhausted, bytes, batches, lines, jobs, chunks, sender,
                   joined, heap, stdout, next_id, ran>>

\* job.run(), then the end of the loop body, where the guard is dropped
WorkerRun(w) ==
    /\ wpc[w] = "run"
    /\ chunks' = Append(chunks, JobRun(wjob[w]))
    /\ ran' = Append(ran, [id |-> wjob[w].id, kind |-> wjob[w].kind])
    /\ wjob' = [wjob EXCEPT ![w] = NoJob]
    /\ wpc' = [wpc EXCEPT ![w] = "idle"]
    /\ recv_lock' = IF recv_lock = w THEN 0 ELSE recv_lock
    /\ UNCHANGED <<readerVars, wcVars, inputs, chunks_lock, executor, poisoned,
                   input, batch_size, buffer_opt, sort_threads, line_iter, pc,
                   exhausted, bytes, batches, lines, jobs, sender, queue,
                   joined, heap, stdout, next_id>>

\* recv() returns Err: the sender is dropped and the queue is empty; the
\* worker leaves its loop
WorkerExit(w) ==
    /\ wpc[w] = "recv"
    /\ queue = <<>>
    /\ ~sender
    /\ wpc' = [wpc EXCEPT ![w] = "exited"]
    /\ recv_lock' = 0
    /\ UNCHANGED <<readerVars, wcVars, inputs, chunks_lock, executor, poisoned,
                   input, batch_size, buffer_opt, sort_threads, line_iter, pc,
                   exhausted, bytes, batches, lines, jobs, chunks, sender, queue,
                   wjob, joined, heap, stdout, next_id, ran>>

\* ---------------------------------------------------------------- panics
\* a thread that unwinds while it holds the MutexGuard poisons the mutex
PoisonAfterPanic == TRUE

\* job.run() panics (an unwrap() of a failed tempfile(), seek or write, the
\* expect("I/O") of a read, or eprintln! after the push): the thread unwinds,
\* the guard it still holds is dropped and the thread ends
JobPanic(w) ==
    /\ wpc[w] = "run"
    /\ \E pushed \in BOOLEAN :
           chunks' = IF pushed THEN Append(chunks, JobRun(wjob[w])) ELSE chunks
    /\ wjob' = [wjob EXCEPT ![w] = NoJob]
    /\ wpc' = [wpc EXCEPT ![w] = "panicked"]
    /\ recv_lock' = IF recv_lock = w THEN 0 ELSE recv_lock
    /\ poisoned' = IF recv_lock = w THEN PoisonAfterPanic ELSE poisoned
    /\ UNCHANGED <<readerVars, wcVars, inputs, chunks_lock, executor,
                   input, batch_size, buffer_opt, sort_threads, line_iter, pc,
                   exhausted, bytes, batches, lines, jobs, sender, queue,
                   joined, heap, stdout, next_id, ran>>

\* thread_recv.lock() returns Err(PoisonError) and unwrap() panics: the
\* thread ends without receiving
WorkerLockPoisoned(w) ==
    /\ wpc[w] = "idle"
    /\ recv_lock = 0
    /\ poisoned
    /\ wpc' = [wpc EXCEPT ![w] = "lock_panicked"]
    /\ UNCHANGED <<readerVars, wcVars, inputs, chunks_lock, executor, poisoned,
                   input, batch_size, buffer_opt, sort_threads, line_iter, pc,
                   exhausted, bytes, batches, lines, jobs, chunks, sender, queue,
                   recv_lock, wjob, joined, heap, stdout, next_id, ran>>

\* -------------------------------------------------------------- Executor
\* the job of a caller that is inside submit()
CallerJob == MkJob("Sort", lines, <<>>)

\* mutant of SyncRun: the job is taken and never run
SyncRunDropped(job) == [chunks |-> chunks, ran |-> ran]

\* Executor::submit, the Synchronous arm: job.run() on the calling thread;
\* the registry and the log of jobs run after it
SyncRun(job) ==
    [chunks |-> Append(chunks, JobRun(job)),
     ran |-> Append(ran, [id |-> next_id + 1, kind |-> job.kind])]

\* the batches the caller of an Executor makes its Sort jobs of
JobLines == {<<>>, <<<<1>>>>, <<<<2>>, <<1>>>>}

\* the caller calls executor.submit(job)
ExCall ==
    /\ pc = "ex_caller"
    /\ next_id < MaxJobs
    /\ \E ls \in JobLines : lines' = ls
    /\ pc' = "ex_submit"
    /\ UNCHANGED <<readerVars, wcVars, inputs, chunks_lock, executor, poisoned,
                   input, batch_size, buffer_opt, sort_threads, line_iter,
                   exhausted, bytes, batches, jobs, chunks, sender, queue,
                   recv_lock, wpc, wjob, joined, heap, stdout, next_id, ran>>

\* Executor::submit, Executor::Synchronous => job.run()
ExSubmitSync ==
    /\ pc = "ex_submit"
    /\ executor = "Synchronous"
    /\ LET r == SyncRun(CallerJob)
       IN  chunks' = r.chunks /\ ran' = r.ran
    /\ next_id' = next_id + 1
    /\ lines' = <<>>
    /\ pc' = "ex_caller"
    /\ UNCHANGED <<readerVars, wcVars, inputs, chunks_lock, executor, poisoned,
                   input, batch_size, buffer_opt, sort_threads, line_iter,
                   exhausted, bytes, batches, jobs, sender, queue, recv_lock,
                   wpc, wjob, joined, heap, stdout>>

\* Executor::submit, Executor::Concurrent(thread_pool) => thread_pool.submit(job)
ExSubmitPool ==
    /\ pc = "ex_submit"
    /\ executor = "Concurrent"
    /\ CanSend
    /\ queue' = Send(CallerJob)
    /\ next_id' = next_id + 1
    /\ lines' = <<>>
    /\ pc' = "ex_caller"
    /\ UNCHANGED <<readerVars, wcVars, inputs, chunks_lock, executor, poisoned,
                   input, batch_size, buffer_opt, sort_threads, line_iter,
                   exhausted, bytes, batches, jobs, chunks, sender, recv_lock,
                   wpc, wjob, joined, heap, stdout, ran>>

\* the caller calls executor.finish()
ExFinishCall ==
    /\ pc = "ex_caller"
    /\ pc' = "ex_finish"
    /\ UNCHANGED <<readerVars, wcVars, inputs, chunks_lock, executor, poisoned,
                   input, batch_size, buffer_opt, sort_threads, line_iter,
                   exhausted, bytes, batches, lines, jobs, chunks, sender, queue,
                   recv_lock, wpc, wjob, joined, heap, stdout, next_id, ran>>

\* Executor::finish, Executor::Synchronous => ()
ExFinishSync ==
    /\ pc = "ex_finish"
    /\ executor = "Synchronous"
    /\ pc' = "ex_done"
    /\ UNCHANGED <<readerVars, wcVars, inputs, chunks_lock, executor, poisoned,
                   input, batch_size, buffer_opt, sort_threads, line_iter,
                   exhausted, bytes, batches, lines, jobs, chunks, sender, queue,
                   recv_lock, wpc, wjob, joined, heap, stdout, next_id, ran>>

\* Executor::finish, Executor::Concurrent: thread_pool.finish() drops the sender
ExFinishDrop ==
    /\ pc = "ex_finish"
    /\ executor = "Concurrent"
    /\ sender' = FALSE
    /\ pc' = "ex_join"
    /\ UNCHANGED <<readerVars, wcVars, inputs, chunks_lock, executor, poisoned,
                   input, batch_size, buffer_opt, sort_threads, line_iter,
                   exhausted, bytes, batches, lines, jobs, chunks, queue,
                   recv_lock, wpc, wjob, joined, heap, stdout, next_id, ran>>

\* Executor::finish, Executor::Concurrent: thread_pool.finish() joins the next thread
ExFinishJoin ==
    /\ pc = "ex_join"
    /\ JoinReady(joined + 1)
    /\ joined' = joined + 1
    /\ pc' = IF joined + 1 = sort_threads THEN "ex_done" ELSE "ex_join"
    /\ UNCHANGED <<readerVars, wcVars, inputs, chunks_lock, executor, poisoned,
                   input, batch_size, buffer_opt, sort_threads, line_iter,
                   exhausted, bytes, batches, lines, jobs, chunks, sender, queue,
                   recv_lock, wpc, wjob, heap, stdout, next_id, ran>>

\* ThreadPool::submit: send() returns Err on the disconnected channel, also
\* to a sender blocked on a full buffer, and unwrap() panics in the caller
ExSubmitPanics ==
    /\ pc = "ex_submit"
    /\ executor = "Concurrent"
    /\ sender
    /\ Disconnected
    /\ pc' = "panicked"
    /\ UNCHANGED <<readerVars, wcVars, inputs, chunks_lock, executor, poisoned,
                   input, batch_size, buffer_opt, sort_threads, line_iter,
                   exhausted, bytes, batches, lines, jobs, chunks, sender, queue,
                   recv_lock, wpc, wjob, joined, heap, stdout, next_id, ran>>

\* ThreadPool::finish: thread.join() returns Err for a thread that panicked
\* and unwrap() panics in the caller
ExFinishJoinPanics ==
    /\ pc = "ex_join"
    /\ Panicked(joined + 1)
    /\ pc' = "panicked"
    /\ UNCHANGED <<readerVars, wcVars, inputs, chunks_lock, executor, poisoned,
                   input, batch_size, buffer_opt, sort_threads, line_iter,
                   exhausted, bytes, batches, lines, jobs, chunks, sender, queue,
                   recv_lock, wpc, wjob, joined, heap, stdout, next_id, ran>>

\* -------------------------------------------------------------------- wc
\* wc_bytes over one input: the main thread reads the input with a
\* ChunkedReader and submits a WcBytesJob for each item to a ThreadPool; the
\* jobs add their counts to bytes_total and lines_total.

\* the newlines among the bytes bs
NewlinesIn(bs) == Cardinality({i \in DOMAIN bs : bs[i] = NL})

\* count_bytes: every byte and every newline of the chunk, and one more of
\* each ("count the newline at the end of this chunk")
count_bytes(bs) == [bytes |-> Len(bs) + 1, lines |-> NewlinesIn(bs) + 1]

\* WcBytesJob { chunk, bytes, lines }
WcBytesJob(item) == [kind |-> "WcBytes", chunk |-> item, id |-> 0]

\* WcBytesJob::run: the counts of a Chunk's data, or of a Bail's data chained
\* with the bytes left in its stream (the reads of which are taken to succeed)
WcBytesRun(job) ==
    IF job.chunk.kind = "Chunk" THEN count_bytes(job.chunk.data)
    ELSE count_bytes(job.chunk.data \o job.chunk.read)

\* for_each is about to call reader.next(): every item it got is dealt with
WcReady == pc = "wc_read" /\ ~call.active /\ Len(items) = next_id

\* the item for_each's closure is called with
WcItem == items[Len(items)]

\* for_each calls reader.next() while the reader holds its input
WcCallNext == WcReady /\ CrCall

\* for_each calls reader.next() and gets None
WcCallNone == WcReady /\ CrNone

\* the closure: executor.submit(WcBytesJob { chunk: chunk.unwrap(), .. })
WcSubmit ==
    /\ pc = "wc_read"
    /\ ~call.active
    /\ Len(items) = next_id + 1
    /\ WcItem.kind \in {"Chunk", "Bail"}
    /\ CanSend
    /\ queue' = Send(WcBytesJob(WcItem))
    /\ next_id' = next_id + 1
    /\ UNCHANGED <<readerVars, wcVars, inputs, chunks_lock, executor, poisoned,
                   input, batch_size, buffer_opt, sort_threads, line_iter, pc,
                   exhausted, bytes, batches, lines, jobs, chunks, sender,
                   recv_lock, wpc, wjob, joined, heap, stdout, ran>>

\* the closure: chunk.unwrap() panics on Some(Err(e))
WcUnwrapPanics ==
    /\ pc = "wc_read"
    /\ ~call.active
    /\ Len(items) = next_id + 1
    /\ WcItem.kind = "Err"
    /\ pc' = "panicked"
    /\ UNCHANGED <<readerVars, wcVars, inputs, chunks_lock, executor, poisoned,
                   input, batch_size, buffer_opt, sort_threads, line_iter,
                   exhausted, bytes, batches, lines, jobs, chunks, sender, queue,
                   recv_lock, wpc, wjob, joined, heap, stdout, next_id, ran>>

\* for_each returns after None; executor.finish() is called
WcEnd ==
    /\ pc = "wc_read"
    /\ ~call.active
    /\ Len(items) = next_id + 1
    /\ WcItem.kind = "None"
    /\ pc' = "ex_finish"
    /\ UNCHANGED <<readerVars, wcVars, inputs, chunks_lock, executor, poisoned,
                   input, batch_size, buffer_opt, sort_threads, line_iter,
                   exhausted, bytes, batches, lines, jobs, chunks, sender, queue,
                   recv_lock, wpc, wjob, joined, heap, stdout, next_id, ran>>

\* job.run() of a WcBytesJob: fetch_add on both totals, then the end of the
\* loop body, where the guard is dropped
WcWorkerRun(w) ==
    /\ wpc[w] = "run"
    /\ LET c == WcBytesRun(wjob[w])
       IN  /\ bytes_total' = bytes_total + c.bytes
           /\ lines_total' = lines_total + c.lines
    /\ ran' = Append(ran, [id |-> wjob[w].id, kind |-> wjob[w].kind])
    /\ wjob' = [wjob EXCEPT ![w] = NoJob]
    /\ wpc' = [wpc EXCEPT ![w] = "idle"]
    /\ recv_lock' = IF recv_lock = w THEN 0 ELSE recv_lock
    /\ UNCHANGED <<readerVars, inputs, chunks_lock, executor, poisoned,
                   input, batch_size, buffer_opt, sort_threads, line_iter, pc,
                   exhausted, bytes, batches, lines, jobs, chunks, sender, queue,
                   joined, heap, stdout, next_id>>

\* ---------------------------------------------------------------- sort()
\* bytes < buffer_size, where buffer_size is usize::max_value() when not given
BelowBuffer(b) == buffer_opt = 0 \/ b < buffer_opt
\* bytes > buffer_size
OverBuffer(b) == buffer_opt # 0 /\ b > buffer_opt

\* the inner while loop of sort(): lines are read into the batch
RECURSIVE CollectLoop(_, _, _)
CollectLoop(iter, ls, b) ==
    IF Len(ls) < batch_size /\ BelowBuffer(b)
    THEN LET r == SplitNext(iter)
         IN  IF IsSome(r[1])
             THEN CollectLoop(r[2], Append(ls, Unwrap(r[1])), b + Len(Unwrap(r[1])))
             ELSE [iter |-> r[2], lines |-> ls, bytes |-> b, exhausted |-> TRUE]
    ELSE [iter |-> iter, lines |-> ls, bytes |-> b, exhausted |-> FALSE]

\* mutant of MergeJob: the group is spilled when bytes reaches buffer_size
MergeJobAtBuffer(group, b) ==
    MkJob(IF ~BelowBuffer(b) THEN "MergeFlush" ELSE "Merge", <<>>, group)

\* the merge job a group of runs is given to, b being bytes
MergeJob(group, b) == MkJob(IF OverBuffer(b) THEN "MergeFlush" ELSE "Merge", <<>>, group)

\* the closure of the merge round over the drained registry: merged and
\* flushed chunks go back to the registry, the others are grouped
RECURSIVE GroupRuns(_, _, _, _, _)
GroupRuns(all, lock, batch, js, b) ==
    IF all = <<>> THEN [lock |-> lock, batch |-> batch, jobs |-> js]
    ELSE LET chunk == Head(all)
         IN  IF is_flushed(chunk) \/ is_merged(chunk)
             THEN GroupRuns(Tail(all), Append(lock, chunk), batch, js, b)
             ELSE LET g == Append(batch, chunk)
                  IN  IF Len(g) = N_WAY_MERGE
                      THEN GroupRuns(Tail(all), lock, <<>>, Append(js, MergeJob(g, b)), b)
                      ELSE GroupRuns(Tail(all), lock, g, js, b)

\* mutant of RoundJobs: the runs left over go back to the registry
RoundJobsRequeue(all, b) ==
    LET g == GroupRuns(all, <<>>, <<>>, <<>>, b)
    IN  [lock |-> g.lock \o g.batch, jobs |-> g.jobs]

\* the jobs of a merge round and the registry it leaves
RoundJobs(all, b) ==
    LET g == GroupRuns(all, <<>>, <<>>, <<>>, b)
    IN  [lock |-> g.lock,
         jobs |-> IF g.batch # <<>> THEN Append(g.jobs, MergeJob(g.batch, b)) ELSE g.jobs]

\* mutant of RoundDue: the round is due at N_WAY_MERGE batches
RoundDueAtN(ex, b, n) == ~ex /\ (OverBuffer(b) \/ n >= N_WAY_MERGE)

\* the test after a Sort job is submitted: a merge round follows
RoundDue(ex, b, n) == ~ex /\ (OverBuffer(b) \/ n > N_WAY_MERGE)

Collect ==
    /\ pc = "collect"
    /\ LET r == CollectLoop(line_iter, <<>>, bytes)
       IN  /\ line_iter' = r.iter
           /\ lines' = r.lines
           /\ bytes' = r.bytes
           /\ exhausted' = r.exhausted
    /\ pc' = "submit_sort"
    /\ UNCHANGED <<readerVars, wcVars, inputs, chunks_lock, executor, poisoned,
                   input, batch_size, buffer_opt, sort_threads, batches, jobs,
                   chunks, sender, queue, recv_lock, wpc, wjob, joined, heap,
                   stdout, next_id, ran>>

\* executor.submit(SortJob::Sort(..)); batches += 1; the test for a round
SubmitSort ==
    /\ pc = "submit_sort"
    /\ CanSend
    /\ queue' = Send(MkJob("Sort", lines, <<>>))
    /\ next_id' = next_id + 1
    /\ lines' = <<>>
    /\ batches' = batches + 1
    /\ pc' = IF RoundDue(exhausted, bytes, batches + 1) THEN "merge_round"
             ELSE IF exhausted THEN "finish" ELSE "collect"
    /\ UNCHANGED <<readerVars, wcVars, inputs, chunks_lock, executor, poisoned,
                   input, batch_size, buffer_opt, sort_threads, line_iter,
                   exhausted, bytes, jobs, chunks, sender, recv_lock, wpc, wjob,
                   joined, heap, stdout, ran>>

\* the registry is drained under its lock and the merge jobs are built
MergeRound ==
    /\ pc = "merge_round"
    /\ batches' = 0
    /\ LET r == RoundJobs(chunks, bytes)
       IN  /\ chunks' = r.lock
           /\ jobs' = r.jobs
           /\ bytes' = IF r.jobs = <<>> THEN 0 ELSE bytes
           /\ pc' = IF r.jobs = <<>> THEN "collect" ELSE "submit_merge"
    /\ UNCHANGED <<readerVars, wcVars, inputs, chunks_lock, executor, poisoned,
                   input, batch_size, buffer_opt, sort_threads, line_iter,
                   exhausted, lines, sender, queue, recv_lock, wpc, wjob, joined,
                   heap, stdout, next_id, ran>>

\* executor.submit(job) for the next merge job; bytes = 0 after the last
SubmitMerge ==
    /\ pc = "submit_merge"
    /\ CanSend
    /\ queue' = Send(Head(jobs))
    /\ next_id' = next_id + 1
    /\ jobs' = Tail(jobs)
    /\ bytes' = IF Tail(jobs) = <<>> THEN 0 ELSE bytes
    /\ pc' = IF Tail(jobs) = <<>> THEN "collect" ELSE "submit_merge"
    /\ UNCHANGED <<readerVars, wcVars, inputs, chunks_lock, executor, poisoned,
                   input, batch_size, buffer_opt, sort_threads, line_iter,
                   exhausted, batches, lines, chunks, sender, recv_lock, wpc,
                   wjob, joined, heap, stdout, ran>>

\* ThreadPool::finish: drop(sender)
FinishDrop ==
    /\ pc = "finish"
    /\ sender' = FALSE
    /\ pc' = "join"
    /\ UNCHANGED <<readerVars, wcVars, inputs, chunks_lock, executor, poisoned,
                   input, batch_size, buffer_opt, sort_threads, line_iter,
                   exhausted, bytes, batches, lines, jobs, chunks, queue,
                   recv_lock, wpc, wjob, joined, heap, stdout, next_id, ran>>

\* ThreadPool::finish: thread.join() of the next thread
FinishJoin ==
    /\ pc = "join"
    /\ JoinReady(joined + 1)
    /\ joined' = joined + 1
    /\ pc' = IF joined + 1 = sort_threads THEN "final_collect" ELSE "join"
    /\ UNCHANGED <<readerVars, wcVars, inputs, chunks_lock, executor, poisoned,
                   input, batch_size, buffer_opt, sort_threads, line_iter,
                   exhausted, bytes, batches, lines, jobs, chunks, sender, queue,
                   recv_lock, wpc, wjob, heap, stdout, next_id, ran>>

\* chunks.lock().unwrap().drain(..).collect() into the final BinaryHeap
FinalCollect ==
    /\ pc = "final_collect"
    /\ heap' = HeapFrom(chunks)
    /\ chunks' = <<>>
    /\ pc' = "final_merge"
    /\ UNCHANGED <<readerVars, wcVars, inputs, chunks_lock, executor, poisoned,
                   input, batch_size, buffer_opt, sort_threads, line_iter,
                   exhausted, bytes, batches, lines, jobs, sender, queue,
                   recv_lock, wpc, wjob, joined, stdout, next_id, ran>>

\* one turn of the final merge loop
FinalMerge ==
    /\ pc = "final_merge"
    /\ heap # <<>>
    /\ LET s == DrainStep(heap, stdout)
       IN  heap' = s[1] /\ stdout' = s[2]
    /\ UNCHANGED <<readerVars, wcVars, inputs, chunks_lock, executor, poisoned,
                   input, batch_size, buffer_opt, sort_threads, line_iter, pc,
                   exhausted, bytes, batches, lines, jobs, chunks, sender, queue,
                   recv_lock, wpc, wjob, joined, next_id, ran>>

\* chunks.pop() returns None: sort() returns
FinalDone ==
    /\ pc = "final_merge"
    /\ heap = <<>>
    /\ pc' = "done"
    /\ UNCHANGED <<readerVars, wcVars, inputs, chunks_lock, executor, poisoned,
                   input, batch_size, buffer_opt, sort_threads, line_iter,
                   exhausted, bytes, batches, lines, jobs, chunks, sender, queue,
                   recv_lock, wpc, wjob, joined, heap, stdout, next_id, ran>>

\* ------------------------------------------------- the inputs of sort()
\* An input argument is a file that opens or not (open); what its reads yield
\* is a stream of bytes and of failed reads (ERR), and once the stream is
\* read the reads return Ok(0), or fail for ever (stuck), as the reads of a
\* directory do.  With input arguments line_iter is the arguments not read to
\* their end, the first of them partly read.

\* a read of the stream that returns Err(e), e not Interrupted
ERR == 256

InputArg(o, st, k) == [open |-> o, stream |-> st, stuck |-> k]

\* Split::next over a stream whose reads may fail: read_until() returns
\* Err(e) at a failed read and the bytes it had read of the line are dropped
\* with buf; kind is "None", "Ok" (with the line) or "Err"
RECURSIVE SplitScanErr(_, _, _)
SplitScanErr(acc, rest, stuck) ==
    IF rest = <<>>
    THEN IF stuck THEN [kind |-> "Err", line |-> <<>>, rest |-> <<>>]
         ELSE [kind |-> "Ok", line |-> acc, rest |-> <<>>]
    ELSE IF Head(rest) = ERR THEN [kind |-> "Err", line |-> <<>>, rest |-> Tail(rest)]
    ELSE IF Head(rest) = NL THEN [kind |-> "Ok", line |-> acc, rest |-> Tail(rest)]
    ELSE SplitScanErr(Append(acc, Head(rest)), Tail(rest), stuck)

SplitNextErr(bs, stuck) ==
    IF bs = <<>> /\ ~stuck THEN [kind |-> "None", line |-> <<>>, rest |-> <<>>]
    ELSE SplitScanErr(<<>>, bs, stuck)

\* .flat_map(|line| line.ok()): a failed read yields no line and the
\* iteration goes on with the next item of the Split
LineOk(r) == IF r.kind = "Ok" THEN Some(r.line) ELSE None

\* line_iter.next(): the arguments that do not open are skipped
\* (.map_err(eprintln).ok()), the items Err of a Split are skipped
\* (line.ok()), a Split at its end gives way to the next argument; hangs
\* when the reads of a stream fail for ever, next() never returning
RECURSIVE LineIterNext(_)
LineIterNext(args) ==
    IF args = <<>> THEN [line |-> None, iter |-> <<>>, hangs |-> FALSE]
    ELSE LET a == Head(args)
             r == SplitNextErr(a.stream, a.stuck)
             left == <<[a EXCEPT !.stream = r.rest]>> \o Tail(args)
         IN  IF ~a.open \/ r.kind = "None" THEN LineIterNext(Tail(args))
             ELSE IF IsSome(LineOk(r)) THEN [line |-> LineOk(r), iter |-> left, hangs |-> FALSE]
             ELSE IF r.rest = <<>> /\ a.stuck THEN [line |-> None, iter |-> left, hangs |-> TRUE]
             ELSE LineIterNext(left)

\* the inner while loop of sort() over the input arguments
RECURSIVE CollectArgsLoop(_, _, _)
CollectArgsLoop(iter, ls, b) ==
    IF Len(ls) < batch_size /\ BelowBuffer(b)
    THEN LET r == LineIterNext(iter)
         IN  IF r.hangs THEN [iter |-> r.iter, lines |-> ls, bytes |-> b, exhausted |-> FALSE, hangs |-> TRUE]
             ELSE IF IsSome(r.line)
             THEN CollectArgsLoop(r.iter, Append(ls, Unwrap(r.line)), b + Len(Unwrap(r.line)))
             ELSE [iter |-> r.iter, lines |-> ls, bytes |-> b, exhausted |-> TRUE, hangs |-> FALSE]
    ELSE [iter |-> iter, lines |-> ls, bytes |-> b, exhausted |-> FALSE, hangs |-> FALSE]

\* the inner while loop of sort() returns: no read of it hangs
CollectArgs ==
    /\ pc = "collect"
    /\ LET r == CollectArgsLoop(line_iter, <<>>, bytes)
       IN  /\ ~r.hangs
           /\ line_iter' = r.iter
           /\ lines' = r.lines
           /\ bytes' = r.bytes
           /\ exhausted' = r.exhausted
    /\ pc' = "submit_sort"
    /\ UNCHANGED <<readerVars, wcVars, inputs, chunks_lock, executor, poisoned,
                   input, batch_size, buffer_opt, sort_threads, batches, jobs,
                   chunks, sender, queue, recv_lock, wpc, wjob, joined, heap,
                   stdout, next_id, ran>>

\* ------------------------------------------ the registry's Mutex, step by step
\* the thread of sort() as a holder of the registry's Mutex
MainThread == sort_threads + 1

\* mutant of DropGuard: the guard is kept
DropGuardLate(holder) == holder

\* the Mutex after its guard is dropped: at the end of the statement
\* chunks.lock().unwrap().push(chunk), and at the end of the block of a round
DropGuard(holder) == 0

\* batches = 0; let mut lock = chunks.lock().unwrap(): waits for the Mutex
RoundLock ==
    /\ pc = "merge_round"
    /\ chunks_lock = 0
    /\ chunks_lock' = MainThread
    /\ batches' = 0
    /\ pc' = "round_drain"
    /\ UNCHANGED <<readerVars, wcVars, inputs, executor, poisoned,
                   input, batch_size, buffer_opt, sort_threads, line_iter,
                   exhausted, bytes, lines, jobs, chunks, sender, queue,
                   recv_lock, wpc, wjob, joined, heap, stdout, next_id, ran>>

\* the block of the round: the registry is drained, the jobs are built and
\* the guard is dropped
RoundDrain ==
    /\ pc = "round_drain"
    /\ LET r == RoundJobs(chunks, bytes)
       IN  /\ chunks' = r.lock
           /\ jobs' = r.jobs
           /\ bytes' = IF r.jobs = <<>> THEN 0 ELSE bytes
           /\ pc' = IF r.jobs = <<>> THEN "collect" ELSE "submit_merge"
    /\ chunks_lock' = DropGuard(chunks_lock)
    /\ UNCHANGED <<readerVars, wcVars, inputs, executor, poisoned,
                   input, batch_size, buffer_opt, sort_threads, line_iter,
                   exhausted, batches, lines, sender, queue, recv_lock, wpc, wjob,
                   joined, heap, stdout, next_id, ran>>

\* chunks.lock().unwrap() of the final merge: waits for the Mutex
FinalLock ==
    /\ pc = "final_collect"
    /\ chunks_lock = 0
    /\ chunks_lock' = MainThread
    /\ pc' = "final_drain"
    /\ UNCHANGED <<readerVars, wcVars, inputs, executor, poisoned,
                   input, batch_size, buffer_opt, sort_threads, line_iter,
                   exhausted, bytes, batches, lines, jobs, chunks, sender, queue,
                   recv_lock, wpc, wjob, joined, heap, stdout, next_id, ran>>

\* .drain(..).collect() into the final BinaryHeap; the guard is dropped
FinalDrain ==
    /\ pc = "final_drain"
    /\ heap' = HeapFrom(chunks)
    /\ chunks' = <<>>
    /\ chunks_lock' = DropGuard(chunks_lock)
    /\ pc' = "final_merge"
    /\ UNCHANGED <<readerVars, wcVars, inputs, executor, poisoned,
                   input, batch_size, buffer_opt, sort_threads, line_iter,
                   exhausted, bytes, batches, lines, jobs, sender, queue,
                   recv_lock, wpc, wjob, joined, stdout, next_id, ran>>

\* the job sorts or merges into a run of its own, up to its push
WorkerCompute(w) ==
    /\ wpc[w] = "run"
    /\ wpc' = [wpc EXCEPT ![w] = "push"]
    /\ UNCHANGED <<readerVars, wcVars, inputs, chunks_lock, executor, poisoned,
                   input, batch_size, buffer_opt, sort_threads, line_iter, pc,
                   exhausted, bytes, batches, lines, jobs, chunks, sender, queue,
                   recv_lock, wjob, joined, heap, stdout, next_id, ran>>

\* chunks.lock().unwrap() of the job: waits for the Mutex
WorkerPushLock(w) ==
    /\ wpc[w] = "push"
    /\ chunks_lock = 0
    /\ chunks_lock' = w
    /\ wpc' = [wpc EXCEPT ![w] = "pushing"]
    /\ UNCHANGED <<readerVars, wcVars, inputs, executor, poisoned,
                   input, batch_size, buffer_opt, sort_threads, line_iter, pc,
                   exhausted, bytes, batches, lines, jobs, chunks, sender, queue,
                   recv_lock, wjob, joined, heap, stdout, next_id, ran>>

\* .push(chunk); the guard is dropped and the job returns
WorkerPush(w) ==
    /\ wpc[w] = "pushing"
    /\ chunks' = Append(chunks, JobRun(wjob[w]))
    /\ chunks_lock' = DropGuard(chunks_lock)
    /\ ran' = Append(ran, [id |-> wjob[w].id, kind |-> wjob[w].kind])
    /\ wjob' = [wjob EXCEPT ![w] = NoJob]
    /\ wpc' = [wpc EXCEPT ![w] = "idle"]
    /\ recv_lock' = IF recv_lock = w THEN 0 ELSE recv_lock
    /\ UNCHANGED <<readerVars, wcVars, inputs, executor, poisoned,
                   input, batch_size, buffer_opt, sort_threads, line_iter, pc,
                   exhausted, bytes, batches, lines, jobs, sender, queue,
                   joined, heap, stdout, next_id>>

\* ------------------------------------------------------- specification
\* the input streams: every byte string up to MaxInputLen
Inputs == SeqsUpTo(LineBytes \cup {NL}, MaxInputLen)

\* the state when sort() enters its loop, the pool being built
InitWith(ins, batch_sizes, buffer_opts, thread_counts) ==
    /\ input \in ins
    /\ batch_size \in batch_sizes
    /\ buffer_opt \in buffer_opts
    /\ sort_threads \in thread_counts
    /\ line_iter = input
    /\ pc = "collect"
    /\ exhausted = FALSE
    /\ bytes = 0
    /\ batches = 0
    /\ lines = <<>>
    /\ jobs = <<>>
    /\ chunks = <<>>
    /\ sender = TRUE
    /\ queue = <<>>
    /\ recv_lock = 0
    /\ wpc = [w \in 1 .. sort_threads |-> "idle"]
    /\ wjob = [w \in 1 .. sort_threads |-> NoJob]
    /\ joined = 0
    /\ heap = <<>>
    /\ stdout = <<>>
    /\ next_id = 0
    /\ ran = <<>>
    /\ executor = "ThreadPool"
    /\ poisoned = FALSE
    /\ reader = NoReader
    /\ call = NoCall
    /\ items = <<>>
    /\ inputs = <<>>
    /\ bytes_total = 0
    /\ lines_total = 0
    /\ chunks_lock = 0

\* every input, batch size, buffer size and pool size within the bounds; the
\* longer the input the smaller the pool, a pool of one worker sorting the
\* longest, which keeps the interleavings of the workers within reach
Init ==
    /\ InitWith(Inputs, 1 .. MaxBatchSize, 0 .. MaxBufferSize, 1 .. MaxThreads)
    /\ Len(input) + sort_threads <= MaxInputLen + 1

\* k lines, each the one byte 1 and a newline
Repeated(k) == [i \in 1 .. 2 * k |-> IF i % 2 = 1 THEN 1 ELSE NL]

\* long streams of equal one-byte lines, sorted one line a batch with a
\* buffer of one byte by one worker
InitLong == InitWith({Repeated(k) : k \in 0 .. MaxRepeat}, {1}, {1}, {1})

Next ==
    \/ Collect
    \/ SubmitSort
    \/ MergeRound
    \/ SubmitMerge
    \/ FinishDrop
    \/ FinishJoin
    \/ FinalCollect
    \/ FinalMerge
    \/ FinalDone
    \/ \E w \in Workers : WorkerLock(w)
    \/ \E w \in Workers : WorkerRecv(w)
    \/ \E w \in Workers : WorkerRun(w)
    \/ \E w \in Workers : WorkerExit(w)

Spec == Init /\ [][Next]_vars

SpecLong == InitLong /\ [][Next]_vars

\* the input arguments: files that do not open, and files whose reads give
\* bytes and errors
InputArgs ==
    {InputArg(FALSE, <<>>, FALSE)}
        \cup {InputArg(TRUE, st, k) : st \in SeqsUpTo({1, NL, ERR}, MaxArgLen), k \in BOOLEAN}

\* sort() over up to MaxArgs input arguments, one line a batch, one worker
InitInputs ==
    /\ inputs \in SeqsUpTo(InputArgs, MaxArgs)
    /\ line_iter = inputs
    /\ input = <<>>
    /\ batch_size = 1
    /\ buffer_opt \in 0 .. MaxBufferSize
    /\ sort_threads = 1
    /\ pc = "collect"
    /\ exhausted = FALSE
    /\ bytes = 0
    /\ batches = 0
    /\ lines = <<>>
    /\ jobs = <<>>
    /\ chunks = <<>>
    /\ sender = TRUE
    /\ queue = <<>>
    /\ recv_lock = 0
    /\ wpc = [w \in 1 .. sort_threads |-> "idle"]
    /\ wjob = [w \in 1 .. sort_threads |-> NoJob]
    /\ joined = 0
    /\ heap = <<>>
    /\ stdout = <<>>
    /\ next_id = 0
    /\ ran = <<>>
    /\ executor = "ThreadPool"
    /\ poisoned = FALSE
    /\ reader = NoReader
    /\ call = NoCall
    /\ items = <<>>
    /\ bytes_total = 0
    /\ lines_total = 0
    /\ chunks_lock = 0

NextInputs ==
    \/ CollectArgs
    \/ SubmitSort
    \/ MergeRound
    \/ SubmitMerge
    \/ FinishDrop
    \/ FinishJoin
    \/ FinalCollect
    \/ FinalMerge
    \/ FinalDone
    \/ \E w \in Workers : WorkerLock(w)
    \/ \E w \in Workers : WorkerRecv(w)
    \/ \E w \in Workers : WorkerRun(w)
    \/ \E w \in Workers : WorkerExit(w)

SpecInputs == InitInputs /\ [][NextInputs]_vars

\* wc_bytes over every input up to MaxWcLen, with a pool of up to MaxThreads
\* workers; CHUNK_SIZE is scaled down to 1 .. MaxChunkSize
InitWc ==
    /\ input \in SeqsUpTo({1, NL}, MaxWcLen)
    /\ \E size \in 1 .. MaxChunkSize : reader = NewReader(input, NL, size)
    /\ call = NoCall
    /\ items = <<>>
    /\ bytes_total = 0
    /\ lines_total = 0
    /\ chunks_lock = 0
    /\ executor = "Concurrent"
    /\ sort_threads \in 1 .. MaxThreads
    /\ wpc = [w \in 1 .. sort_threads |-> "idle"]
    /\ wjob = [w \in 1 .. sort_threads |-> NoJob]
    /\ pc = "wc_read"
    /\ inputs = <<>>
    /\ batch_size = 1
    /\ buffer_opt = 0
    /\ line_iter = <<>>
    /\ exhausted = FALSE
    /\ bytes = 0
    /\ batches = 0
    /\ lines = <<>>
    /\ jobs = <<>>
    /\ chunks = <<>>
    /\ sender = TRUE
    /\ queue = <<>>
    /\ recv_lock = 0
    /\ joined = 0
    /\ heap = <<>>
    /\ stdout = <<>>
    /\ next_id = 0
    /\ ran = <<>>
    /\ poisoned = FALSE

NextWc ==
    \/ WcCallNext
    \/ WcCallNone
    \/ CrRead
    \/ CrReadFull
    \/ CrEof
    \/ CrErr
    \/ WcSubmit
    \/ WcUnwrapPanics
    \/ WcEnd
    \/ ExFinishDrop
    \/ ExFinishJoin
    \/ \E w \in Workers : WorkerLock(w)
    \/ \E w \in Workers : WorkerRecv(w)
    \/ \E w \in Workers : WcWorkerRun(w)
    \/ \E w \in Workers : WorkerExit(w)

SpecWc == InitWc /\ [][NextWc]_vars

\* a caller of drain_until: chunks holds the run, lines the limit, stdout is
\* the sink and exhausted takes the value returned
DrainUntilCall ==
    /\ pc = "drain_call"
    /\ LET r == DrainUntil(chunks[1], stdout, lines[1])
       IN  /\ exhausted' = r[1]
           /\ chunks' = <<r[2]>>
           /\ stdout' = r[3]
    /\ pc' = "drain_ret"
    /\ UNCHANGED <<readerVars, wcVars, inputs, chunks_lock, executor, poisoned,
                   input, batch_size, buffer_opt, sort_threads, line_iter,
                   bytes, batches, lines, jobs, sender, queue, recv_lock, wpc,
                   wjob, joined, heap, next_id, ran>>

\* the lines of up to MaxLineLen bytes
ShortLines == SeqsUpTo(LineBytes, MaxLineLen)

\* the bytes of a temporary file that holds the lines ls
RECURSIVE WriteAll(_, _)
WriteAll(sink, ls) == IF ls = <<>> THEN sink ELSE WriteAll(WriteLine(sink, Head(ls)), Tail(ls))

\* a run of one to MaxRunLines sorted lines, in memory as SortedChunk::new
\* builds it or file-backed as run_merge_flush builds it, and a limit; input
\* is the run's lines as a stream
InitDrain ==
    /\ \E ls \in {l \in SeqsUpTo(ShortLines, MaxRunLines) : l # <<>> /\ l = SortUnstable(l)} :
           /\ input = WriteAll(<<>>, ls)
           /\ chunks \in {<<ChunkNew(ls)>>,
                           <<ChunkNext(MkChunk(TRUE, TRUE, <<>>, WriteAll(<<>>, ls), None))[2]>>}
    /\ \E limit \in ShortLines : lines = <<limit>>
    /\ pc = "drain_call"
    /\ stdout = <<>>
    /\ exhausted = FALSE
    /\ executor = "ThreadPool"
    /\ poisoned = FALSE
    /\ sort_threads = 1
    /\ wpc = <<>>
    /\ wjob = <<>>
    /\ batch_size = 1
    /\ buffer_opt = 0
    /\ line_iter = <<>>
    /\ bytes = 0
    /\ batches = 0
    /\ jobs = <<>>
    /\ sender = TRUE
    /\ queue = <<>>
    /\ recv_lock = 0
    /\ joined = 0
    /\ heap = <<>>
    /\ next_id = 0
    /\ ran = <<>>
    /\ reader = NoReader
    /\ call = NoCall
    /\ items = <<>>
    /\ inputs = <<>>
    /\ bytes_total = 0
    /\ lines_total = 0
    /\ chunks_lock = 0

NextDrain == DrainUntilCall

SpecDrain == InitDrain /\ [][NextDrain]_vars

\* the steps of the thread of sort(), for the fairness of its scheduling
SortStep ==
    \/ Collect
    \/ SubmitSort
    \/ MergeRound
    \/ SubmitMerge
    \/ FinishDrop
    \/ FinishJoin
    \/ FinalCollect
    \/ FinalMerge
    \/ FinalDone

\* the steps of a worker thread around its jobs
SortWorkerStep(w) ==
    /\ w \in Workers
    /\ \/ WorkerLock(w)
       \/ WorkerRecv(w)
       \/ WorkerExit(w)

\* job.run() returns: the step WorkerRun(w) as the worker's position shows it
WorkerReturns(w) ==
    w \in Workers /\ wpc[w] = "run" /\ wpc' = [wpc EXCEPT ![w] = "idle"]

\* every thread that can take a step is scheduled again, and every job returns
FairSort ==
    /\ WF_vars(SortStep)
    /\ \A w \in 1 .. MaxThreads : WF_vars(SortWorkerStep(w)) /\ WF_wpc(WorkerReturns(w))

\* sort() under fair scheduling, over streams of equal one-byte lines, one
\* line a batch
InitFair ==
    InitWith({Repeated(k) : k \in 0 .. MaxBatchSize}, {1}, 0 .. MaxBufferSize,
             1 .. MaxThreads)

SpecFair == InitFair /\ [][Next]_vars /\ FairSort

\* sort() with the registry's Mutex taken and dropped in steps of their own,
\* over streams of the bytes 1 and newline, one line a batch
InitRegistry ==
    InitWith(SeqsUpTo({1, NL}, MaxInputLen), {1}, 0 .. MaxBufferSize, 1 .. MaxThreads)

NextRegistry ==
    \/ Collect
    \/ SubmitSort
    \/ RoundLock
    \/ RoundDrain
    \/ SubmitMerge
    \/ FinishDrop
    \/ FinishJoin
    \/ FinalLock
    \/ FinalDrain
    \/ FinalMerge
    \/ FinalDone
    \/ \E w \in Workers : WorkerLock(w)
    \/ \E w \in Workers : WorkerRecv(w)
    \/ \E w \in Workers : WorkerCompute(w)
    \/ \E w \in Workers : WorkerPushLock(w)
    \/ \E w \in Workers : WorkerPush(w)
    \/ \E w \in Workers : WorkerExit(w)

SpecRegistry == InitRegistry /\ [][NextRegistry]_vars

\* a ChunkedReader over every stream up to MaxStreamLen, cut at newlines
InitChunks ==
    /\ input \in SeqsUpTo(LineBytes \cup {NL}, MaxStreamLen)
    /\ \E size \in 1 .. MaxChunkSize : reader = NewReader(input, NL, size)
    /\ call = NoCall
    /\ items = <<>>
    /\ inputs = <<>>
    /\ bytes_total = 0
    /\ lines_total = 0
    /\ chunks_lock = 0
    /\ executor = "ThreadPool"
    /\ poisoned = FALSE
    /\ sort_threads = 1
    /\ wpc = <<>>
    /\ wjob = <<>>
    /\ pc = "reader"
    /\ batch_size = 1
    /\ buffer_opt = 0
    /\ line_iter = <<>>
    /\ exhausted = FALSE
    /\ bytes = 0
    /\ batches = 0
    /\ lines = <<>>
    /\ jobs = <<>>
    /\ chunks = <<>>
    /\ sender = TRUE
    /\ queue = <<>>
    /\ recv_lock = 0
    /\ joined = 0
    /\ heap = <<>>
    /\ stdout = <<>>
    /\ next_id = 0
    /\ ran = <<>>

NextChunks ==
    \/ CrNone
    \/ CrCall
    \/ CrRead
    \/ CrReadFull
    \/ CrEof
    \/ CrErr

SpecChunks == InitChunks /\ [][NextChunks]_vars

\* a caller of the Executor API: the variant, and the pool's size when there
\* is a pool; nothing of sort() but the registry the jobs push to
InitExecutor ==
    /\ executor \in {"Synchronous", "Concurrent"}
    /\ sort_threads \in IF executor = "Concurrent" THEN 1 .. MaxThreads ELSE {1}
    /\ wpc = IF executor = "Concurrent" THEN [w \in 1 .. sort_threads |-> "idle"] ELSE <<>>
    /\ wjob = IF executor = "Concurrent" THEN [w \in 1 .. sort_threads |-> NoJob] ELSE <<>>
    /\ pc = "ex_caller"
    /\ input = <<>>
    /\ batch_size = 1
    /\ buffer_opt = 0
    /\ line_iter = <<>>
    /\ exhausted = FALSE
    /\ bytes = 0
    /\ batches = 0
    /\ lines = <<>>
    /\ jobs = <<>>
    /\ chunks = <<>>
    /\ sender = TRUE
    /\ queue = <<>>
    /\ recv_lock = 0
    /\ joined = 0
    /\ heap = <<>>
    /\ stdout = <<>>
    /\ next_id = 0
    /\ ran = <<>>
    /\ poisoned = FALSE
    /\ reader = NoReader
    /\ call = NoCall
    /\ items = <<>>
    /\ inputs = <<>>
    /\ bytes_total = 0
    /\ lines_total = 0
    /\ chunks_lock = 0

NextExecutor ==
    \/ ExCall
    \/ ExSubmitSync
    \/ ExSubmitPool
    \/ ExFinishCall
    \/ ExFinishSync
    \/ ExFinishDrop
    \/ ExFinishJoin
    \/ \E w \in Workers : WorkerLock(w)
    \/ \E w \in Workers : WorkerRecv(w)
    \/ \E w \in Workers : WorkerRun(w)
    \/ \E w \in Workers : WorkerExit(w)

SpecExecutor == InitExecutor /\ [][NextExecutor]_vars

\* a caller of a pool whose jobs may panic
InitPanic == InitExecutor /\ executor = "Concurrent"

\* the steps of the calling thread, for the fairness of its scheduling
CallerStep ==
    \/ ExCall
    \/ ExSubmitPool
    \/ ExSubmitPanics
    \/ ExFinishCall
    \/ ExFinishDrop
    \/ ExFinishJoin
    \/ ExFinishJoinPanics

\* the steps of a worker thread that do not depend on its job's outcome, for
\* the fairness of its scheduling
WorkerStep(w) ==
    /\ w \in Workers
    /\ \/ WorkerLock(w)
       \/ WorkerLockPoisoned(w)
       \/ WorkerRecv(w)
       \/ WorkerRun(w)
       \/ WorkerExit(w)

NextPanic ==
    \/ ExCall
    \/ ExSubmitPool
    \/ ExSubmitPanics
    \/ ExFinishCall
    \/ ExFinishDrop
    \/ ExFinishJoin
    \/ ExFinishJoinPanics
    \/ \E w \in Workers : WorkerLock(w)
    \/ \E w \in Workers : WorkerLockPoisoned(w)
    \/ \E w \in Workers : WorkerRecv(w)
    \/ \E w \in Workers : WorkerRun(w)
    \/ \E w \in Workers : WorkerExit(w)
    \/ \E w \in Workers : JobPanic(w)

\* every thread that can take a step is scheduled again; whether a job
\* panics is not a matter of scheduling
FairThreads == WF_vars(CallerStep) /\ \A w \in 1 .. MaxThreads : WF_vars(WorkerStep(w))

SpecPanic == InitPanic /\ [][NextPanic]_vars /\ FairThreads

\* a ThreadPool whose jobs all return, under the same fair scheduling
NextPool ==
    \/ ExCall
    \/ ExSubmitPool
    \/ ExFinishCall
    \/ ExFinishDrop
    \/ ExFinishJoin
    \/ \E w \in Workers : WorkerLock(w)
    \/ \E w \in Workers : WorkerRecv(w)
    \/ \E w \in Workers : WorkerRun(w)
    \/ \E w \in Workers : WorkerExit(w)

SpecPool == InitPanic /\ [][NextPool]_vars /\ FairThreads

\* ------------------------------------------------------ claims: helpers
\* the lines of a byte stream, as sort() reads them and as a reader of the
\* output sees them
InputLines == SplitAll(input)
OutputLines == SplitAll(stdout)

IsSorted(ls) == \A i \in 1 .. Len(ls) - 1 : LineCmp(ls[i], ls[i + 1]) <= 0

\* the multiset of a sequence's elements
BagOf(ls) ==
    [x \in {ls[i] : i \in DOMAIN ls} |-> Cardinality({i \in DOMAIN ls : ls[i] = x})]

\* ---------------------------------------------------------------- claims
\* C1: the lines written to the output by sort() are in non-decreasing
\* byte-wise order: every adjacent pair satisfies previous <= next, for every
\* input, configuration and interleaving.
C1_OutputSorted == IsSorted(OutputLines)

\* C2: when sort() returns, the multiset of lines written to the output
\* equals the multiset of lines read from the input: no line is lost and no
\* line is duplicated, through Sort, Merge and MergeFlush jobs alike.
C2_MultisetPreserved == pc = "done" => BagOf(OutputLines) = BagOf(InputLines)

\* sort() has returned after Merge and MergeFlush jobs ran and wrote lines
C2_Witness ==
    /\ pc = "done"
    /\ Len(OutputLines) >= 2
    /\ \E i \in DOMAIN ran : ran[i].kind = "Merge"
    /\ \E i \in DOMAIN ran : ran[i].kind = "MergeFlush"

\* the output of the schedule in which every job has run when submit()
\* returns: one of the interleavings, used as the reference of C3
RECURSIVE RunAll(_, _)
RunAll(reg, js) == IF js = <<>> THEN reg ELSE RunAll(Append(reg, JobRun(Head(js))), Tail(js))

RECURSIVE SerialOutput(_, _, _, _)
SerialOutput(iter, b, n, reg) ==
    LET c == CollectLoop(iter, <<>>, b)
        reg1 == Append(reg, run_sort(c.lines))
    IN  IF RoundDue(c.exhausted, c.bytes, n + 1)
        THEN LET r == RoundJobs(reg1, c.bytes)
             IN  SerialOutput(c.iter, 0, 0, RunAll(r.lock, r.jobs))
        ELSE IF c.exhausted THEN FlushLoop(HeapFrom(reg1), <<>>)
        ELSE SerialOutput(c.iter, c.bytes, n + 1, reg1)

\* C3: for a fixed input, batch_size and buffer_size the output is the same
\* for every thread count and every interleaving of job completions: every
\* run ends with the output of the run in which each job completes at once.
C3_OutputDeterministic == pc = "done" => stdout = SerialOutput(input, 0, 0, <<>>)

\* C4: sorting input whose lines are already in non-decreasing order gives
\* back the input: the lines written are the lines read, in the same order.
C4_SortedInputUnchanged ==
    (pc = "done" /\ IsSorted(InputLines)) => OutputLines = InputLines

\* the size in bytes of the lines a sequence holds
RECURSIVE LinesSize(_)
LinesSize(ls) == IF ls = <<>> THEN 0 ELSE Len(Head(ls)) + LinesSize(Tail(ls))

\* the lines a chunk holds in memory: none of a file-backed chunk's
ChunkMem(c) == IF c.file THEN 0 ELSE LinesSize(c.head) + LinesSize(c.vec)

RECURSIVE ChunksMem(_)
ChunksMem(cs) == IF cs = <<>> THEN 0 ELSE ChunkMem(Head(cs)) + ChunksMem(Tail(cs))

JobMem(j) == LinesSize(j.lines) + ChunksMem(j.runs)

RECURSIVE JobsMem(_)
JobsMem(js) == IF js = <<>> THEN 0 ELSE JobMem(Head(js)) + JobsMem(Tail(js))

\* the lines held in memory: the batch collected, the inputs of the jobs
\* built, queued and running, and the in-memory runs of the registry
MemInUse ==
    LinesSize(lines) + JobsMem(jobs) + JobsMem(queue)
        + JobsMem([i \in 1 .. sort_threads |-> wjob[i]]) + ChunksMem(chunks)

\* the longest line of the input
RECURSIVE Longest(_)
Longest(ls) == IF ls = <<>> THEN 0 ELSE LET t == Longest(Tail(ls)) IN IF Len(Head(ls)) > t THEN Len(Head(ls)) ELSE t

\* a bound that depends on buffer_size, batch_size and the thread count, not
\* on the number of lines: buffer_size, and the batches of one window of
\* N_WAY_MERGE + 1 Sort jobs and of the 2 * sort_threads jobs that can be
\* queued or running, every line counted as the longest
MemBound ==
    buffer_opt + (N_WAY_MERGE + 1 + 2 * sort_threads) * batch_size * Longest(InputLines)

\* C5: with buffer_size = B the lines held in memory during sort() stay
\* below a bound that depends on B, batch_size and the thread count but not
\* on the length of the input.
C5_MemoryBounded == (buffer_opt # 0 /\ pc # "done") => MemInUse <= MemBound

\* the caller is inside ThreadPool::submit
InSubmit == pc \in {"submit_sort", "submit_merge"}
\* ThreadPool::finish has returned
FinishReturned == pc \in {"final_collect", "final_merge", "done"}
\* the ids of the jobs the workers are running
RunningIds == {wjob[w].id : w \in {v \in Workers : wpc[v] = "run"}}

\* C6: finish() does not return before every submitted job has run to
\* completion: when it has returned no job is queued or running, every
\* worker has left its loop and every job accepted has run.
C6_FinishWaits ==
    FinishReturned =>
        /\ queue = <<>>
        /\ \A w \in Workers : wpc[w] = "exited" /\ wjob[w] = NoJob
        /\ {ran[i].id : i \in DOMAIN ran} = 1 .. next_id

\* finish() has returned for a pool of two workers that was given three jobs
C6_Witness == pc = "final_collect" /\ sort_threads = 2 /\ next_id >= 3

\* C7: the queue of a pool of n workers never holds more than n jobs, and a
\* submit() made while it holds n jobs does not return in any step taken
\* from that state: it returns only after a worker took a job.
C7_QueueBounded ==
    [][/\ Len(queue') <= sort_threads'
       /\ (InSubmit /\ Len(queue) = sort_threads) => (pc' = pc /\ next_id' = next_id)]_vars

\* the caller is inside submit() while the queue of two workers holds two jobs
C7_Witness == InSubmit /\ sort_threads = 2 /\ Len(queue) = sort_threads

C9_ExactlyOnce ==
    LET running == {w \in Workers : wpc[w] = "run"}
        queued == {queue[i].id : i \in DOMAIN queue}
        done == {ran[i].id : i \in DOMAIN ran}
    IN  /\ Cardinality(queued) = Len(queue)
        /\ Cardinality(RunningIds) = Cardinality(running)
        /\ Cardinality(done) = Len(ran)
        /\ queued \cap RunningIds = {} /\ queued \cap done = {} /\ RunningIds \cap done = {}
        /\ queued \cup RunningIds \cup done = 1 .. next_id
        /\ FinishReturned => Len(ran) = next_id

\* sort() has returned after two workers ran three jobs or more
C9_Witness == pc = "done" /\ sort_threads = 2 /\ next_id >= 3 /\ Len(ran) = next_id

\* C10: a worker does not hold the shared receiver lock while it runs its
\* job, so that two workers can be inside job.run() at the same time.
C10_NoLockWhileRunning == \A w \in Workers : wpc[w] = "run" => recv_lock # w

\* C11: Executor::Synchronous runs each job on the calling thread inside
\* submit(): there is no worker and no queue, every job accepted has run when
\* submit() has returned, the jobs run in submission order, and finish()
\* returns at once, whatever was submitted.
C11_SynchronousRunsInSubmit ==
    executor = "Synchronous" =>
        /\ Workers = {} /\ queue = <<>>
        /\ Len(ran) = next_id /\ Len(chunks) = next_id
        /\ \A i \in DOMAIN ran : ran[i].id = i
        /\ pc = "ex_finish" => ENABLED ExFinishSync

\* finish() of the synchronous executor has returned after two jobs or more
C11_Witness == executor = "Synchronous" /\ pc = "ex_done" /\ next_id >= 2

\* C12: with sort_threads = 1 sort() runs its jobs synchronously: every
\* Sort, Merge and MergeFlush job accepted has run to completion on the
\* submitting thread when submit() has returned, and no job waits in a queue.
C12_SyncWhenOneThread == sort_threads = 1 => (queue = <<>> /\ Len(ran) = next_id)

\* C13: a panic inside a job ends only the worker that was running that
\* job: no other worker of the pool ends by a panic, so the others go on
\* receiving and running jobs.
C13_OnlyThatWorkerEnds == \A w \in Workers : Panicked(w) => wpc[w] = "panicked"

\* a job has panicked
JobPanicked == \E w \in Workers : wpc[w] = "panicked"

\* C14: if a job panics, the caller does not block forever in submit() or
\* finish(): a later submit() or finish() ends with a panic in the caller.
C14_PanicSurfaced == JobPanicked ~> pc = "panicked"

\* the caller of a pool of two workers panicked in submit() after a job
\* panicked, a job it had submitted still in the queue
C14_Witness ==
    /\ pc = "panicked" /\ sort_threads = 2 /\ JobPanicked
    /\ sender /\ Len(queue) >= 1

\* ------------------------------------------------- claims: ChunkedReader
\* the calls of next() that returned a Chunk, and those that returned a Bail
ChunkItems == {i \in DOMAIN items : items[i].kind = "Chunk"}
BailItems == {i \in DOMAIN items : items[i].kind = "Bail"}

\* the bytes of the stream from offset st (0-based), n of them or those left
Window(st, n) == SubSeq(input, st + 1, IF st + n <= Len(input) THEN st + n ELSE Len(input))

C16_ChunkAligned ==
    /\ \A i \in ChunkItems :
          LET st == items[i].start
              en == st + Len(items[i].data)
          IN  /\ st = 0 \/ input[st] = reader.delimiter
              /\ items[i].data = Window(st, Len(items[i].data))
              /\ en = Len(input) \/ (en < Len(input) /\ input[en + 1] = reader.delimiter)
    /\ \A i \in ChunkItems :
          (i < Len(items) /\ items[i + 1].kind \in {"Chunk", "Bail"})
              => items[i + 1].start = items[i].start + Len(items[i].data) + 1

\* a Chunk cut from a full buffer whose last byte was no delimiter, followed
\* by a Chunk that starts with the bytes carried over
C16_Witness ==
    \E i \in ChunkItems :
        /\ i + 1 \in ChunkItems
        /\ ~items[i].eof
        /\ items[i].start + Len(items[i].data) + 1 < items[i].start + reader.max_chunk_size
        /\ Len(items[i + 1].data) >= 2

\* C17: a Chunk cut from a full buffer is maximal: among the max_chunk_size
\* bytes of the stream that start at the Chunk's first byte it ends at the
\* last delimiter, which is removed; the delimiters before it stay in the
\* Chunk.
C17_ChunkMaximal ==
    \A i \in ChunkItems :
        ~items[i].eof =>
            LET w == Window(items[i].start, reader.max_chunk_size)
                k == Len(items[i].data) + 1
            IN  /\ Len(w) = reader.max_chunk_size
                /\ w[k] = reader.delimiter
                /\ \A j \in k + 1 .. Len(w) : w[j] # reader.delimiter
                /\ items[i].data = SubSeq(w, 1, k - 1)

\* a Chunk cut from a full buffer that keeps a delimiter inside, some of its
\* bytes carried over from the call before
C17_Witness ==
    \E i \in ChunkItems :
        /\ ~items[i].eof
        /\ items[i].start > 0
        /\ \E j \in DOMAIN items[i].data : items[i].data[j] = reader.delimiter

\* C18: a Bail is returned for max_chunk_size buffered bytes that hold no
\* delimiter, and only then: its data is those bytes, carried bytes included,
\* its stream yields the bytes of the input that follow them, and every call
\* of next() after it returns None.
C18_BailExact ==
    /\ \A i \in BailItems :
          LET st == items[i].start
          IN  /\ Len(items[i].data) = reader.max_chunk_size
              /\ items[i].data = Window(st, reader.max_chunk_size)
              /\ \A j \in DOMAIN items[i].data : items[i].data[j] # reader.delimiter
              /\ items[i].read = SubSeq(input, st + reader.max_chunk_size + 1, Len(input))
              /\ \A j \in i + 1 .. Len(items) : items[j].kind = "None"
              /\ i = Len(items) => (~call.active /\ reader.input = None)
    /\ \A i \in ChunkItems :
          ~items[i].eof =>
              \E j \in DOMAIN Window(items[i].start, reader.max_chunk_size) :
                  Window(items[i].start, reader.max_chunk_size)[j] = reader.delimiter

\* a Bail that holds carried bytes and leaves bytes in the stream, and the
\* call of next() after it
C18_Witness ==
    \E i \in BailItems :
        /\ items[i].start > 0
        /\ items[i].read # <<>>
        /\ i < Len(items)

\* the calls of next() that ended the sequence: the Chunk of the end of the
\* stream, a Bail or an error
EndItems == {i \in DOMAIN items : items[i].eof \/ items[i].kind \in {"Bail", "Err"}}

\* C19 as claimed: no Chunk is returned by a call made when the stream is
\* fully consumed and the carry buffer is empty (such a call returns None).
C19_NoChunkAtEnd == \A i \in ChunkItems : items[i].start < Len(input)

\* C19 amended: next() returns None only after the call that reached the end
\* of the stream returned its Chunk, or after a Bail or an error; the call
\* that reaches the end of the stream returns a Chunk also when the stream
\* was fully consumed and the carry buffer empty when it was made, and that
\* Chunk is empty.
C19_NoneOnlyAfterEnd ==
    /\ \A i \in DOMAIN items :
          items[i].kind = "None" => \E j \in EndItems : j < i /\ items[j].kind # "None"
    /\ \A i \in DOMAIN items : items[i].eof => items[i].kind = "Chunk"
    /\ \A i \in ChunkItems :
          items[i].start = Len(input) => (items[i].eof /\ items[i].data = <<>>)

\* a stream that ends with a delimiter at the end of a full buffer: a Chunk,
\* then the empty Chunk of the end of the stream, then None
C19_Witness ==
    /\ input # <<>>
    /\ Len(items) = 3
    /\ items[1].kind = "Chunk" /\ ~items[1].eof
    /\ items[2] = Item("Chunk", <<>>, <<>>, Len(input), TRUE)
    /\ items[3].kind = "None"

\* C20: over a finite stream next() returns finitely many items: at most
\* one more than the stream has bytes; one Chunk, and only one, comes from
\* the call that reaches the end of the stream (the empty Chunk for the empty
\* stream) unless a Bail or an error ended the sequence, and every call after
\* that Chunk returns None.
C20_FiniteSequence ==
    LET eofs == {i \in DOMAIN items : items[i].eof}
    IN  /\ Cardinality(DOMAIN items \ {i \in DOMAIN items : items[i].kind = "None"}) <= Len(input) + 1
        /\ Cardinality(eofs) <= 1
        /\ \A i \in eofs :
              /\ items[i].kind = "Chunk"
              /\ \A j \in i + 1 .. Len(items) : items[j].kind = "None"
        /\ (~call.active /\ reader.input = None /\ BailItems = {}
              /\ \A i \in DOMAIN items : items[i].kind # "Err") => Cardinality(eofs) = 1
        /\ (input = <<>> /\ items # <<>> /\ items[1].kind # "Err")
              => items[1] = Item("Chunk", <<>>, <<>>, 0, TRUE)

\* a stream read in three Chunks, the last from the call that reached the end
\* of the stream, and the calls after it
C20_Witness ==
    /\ Len(items) = 3 + MaxNoneCalls
    /\ {1, 2, 3} \subseteq ChunkItems
    /\ items[3].eof /\ items[3].data # <<>>

\* the calls of next() that returned an I/O error
ErrItems == {i \in DOMAIN items : items[i].kind = "Err"}

\* C21: a read() that fails makes the same call of next() return the error;
\* the bytes buffered in that call (the carry and what was read) are in no
\* Chunk or Bail, the reader keeps neither input nor carry, and every later
\* call returns None.
C21_ErrorFailsFast ==
    /\ \A i \in ErrItems :
          /\ items[i].data = <<>> /\ items[i].read = <<>>
          /\ \A j \in i + 1 .. Len(items) : items[j].kind = "None"
    /\ ErrItems # {} => (~call.active /\ reader.input = None /\ reader.next_buf = <<>>)

\* a call that had two bytes carried over from a full buffer of four failed,
\* and the call after it returned None
C21_Witness ==
    /\ reader.max_chunk_size = 4
    /\ Len(items) = 3
    /\ items[1].kind = "Chunk" /\ ~items[1].eof /\ Len(items[1].data) = 1
    /\ items[2].kind = "Err"
    /\ items[3].kind = "None"

\* C22: when the lines of the input are larger in total than a configured
\* buffer_size, sort() has submitted and run at least one MergeFlush job by
\* the time it returns.
C22_SpillWhenOverBuffer ==
    (pc = "done" /\ buffer_opt # 0 /\ LinesSize(InputLines) > buffer_opt)
        => \E i \in DOMAIN ran : ran[i].kind = "MergeFlush"

\* an input argument of sort() did not open, or a read of one failed
InputFailed ==
    \E i \in DOMAIN inputs :
        \/ ~inputs[i].open
        \/ inputs[i].stuck
        \/ \E k \in DOMAIN inputs[i].stream : inputs[i].stream[k] = ERR

\* C23: when an input of sort() does not open or a read of an input fails,
\* sort() does not run to its end and writes no line to the output.
C23_InputErrorFatal == InputFailed => (pc # "done" /\ stdout = <<>>)

\* C24: the totals wc reports for bytes and lines are the number of bytes and
\* the number of newline characters of the input, however the reader split
\* the input and in whatever order the jobs completed.
C24_WcCountsExact ==
    pc = "ex_done" => (bytes_total = Len(input) /\ lines_total = NewlinesIn(input))

\* the runs a job merges, and the jobs that are built, queued or being run
JobsAbout == jobs \o queue \o [i \in DOMAIN wjob |-> wjob[i]]

\* a heap built of these runs compares runs (BinaryHeap::from sifts when it
\* holds two runs or more, and every run is then compared with another)
Compared(rs) == Len(rs) >= 2

\* C25: two runs compared inside a merge heap both have a cached head: in the
\* final heap and in the group of every Merge and MergeFlush job, whenever it
\* holds two runs or more, no run is without a head (so the Ordering::Equal
\* arm of SortedChunk::cmp is not taken).
C25_HeadsCached ==
    /\ Compared(heap) => \A i \in DOMAIN heap : IsSome(Peek(heap[i]))
    /\ \A i \in DOMAIN JobsAbout :
          Compared(JobsAbout[i].runs) =>
              \A k \in DOMAIN JobsAbout[i].runs : IsSome(Peek(JobsAbout[i].runs[k]))

\* the heads of the runs rs that have one
HeadsOf(rs) == {Unwrap(Peek(rs[i])) : i \in {k \in DOMAIN rs : IsSome(Peek(rs[k]))}}

\* one turn of a merge loop on the heap data obeys the rule of C26: the run
\* popped is drained without a limit only when no run left in the heap has
\* lines, and else up to the smallest head of the runs left
TurnOk(data) ==
    LET p == HeapPop(data)
        limit == PeekLimit(p[2])
    IN  IF HeadsOf(p[2]) = {} THEN ~IsSome(limit)
        ELSE /\ IsSome(limit)
             /\ \A h \in HeadsOf(p[2]) : LineCmp(Unwrap(limit), h) <= 0

\* the heap one turn of the loop of run_merge leaves
MergeTurn(data) ==
    LET p == HeapPop(data)
        limit == PeekLimit(p[2])
    IN  IF IsSome(limit)
        THEN LET r == MergeUntil(p[1], <<>>, Unwrap(limit))
             IN  IF IsSome(Peek(r[1])) THEN HeapPush(p[2], r[1]) ELSE p[2]
        ELSE p[2]

\* every turn of the loop of a job obeys the rule, from the heap data on
RECURSIVE TurnsOk(_, _)
TurnsOk(kind, data) ==
    \/ data = <<>>
    \/ /\ TurnOk(data)
       /\ TurnsOk(kind, IF kind = "Merge" THEN MergeTurn(data) ELSE DrainStep(data, <<>>)[1])

\* C26: in every turn of a merge loop (the final merge, run_merge and
\* run_merge_flush) the popped run is drained without a limit only when no
\* other run of the heap has lines left; while one has, the popped run is
\* drained up to the smallest head left in the heap.
C26_DrainToNextHead ==
    /\ (pc = "final_merge" /\ heap # <<>>) => TurnOk(heap)
    /\ \A i \in DOMAIN JobsAbout :
          JobsAbout[i].kind \in {"Merge", "MergeFlush"}
              => TurnsOk(JobsAbout[i].kind, HeapFrom(JobsAbout[i].runs))

\* the lines a run enumerates: its head, then what its source yields
ChunkLines(c) == c.head \o (IF c.file THEN SplitAll(c.fbytes) ELSE c.vec)

\* C27: every run in the registry, pushed by a Sort, Merge or MergeFlush
\* job, enumerates its lines in non-decreasing byte-wise order.
C27_RunsSorted == \A i \in DOMAIN chunks : IsSorted(ChunkLines(chunks[i]))

\* C28: drain_until(sink, limit) on a sorted run that is not empty writes
\* the first n >= 1 lines of the run in order, each followed by a newline,
\* and leaves the others in the run.  It returns false with the new head
\* strictly greater than limit, and true with the run exhausted; in both cases
\* every line written but the first is <= limit, so it stopped at the first
\* head beyond the limit and wrote the lines equal to the limit.
C28_DrainUntilStops ==
    pc = "drain_ret" =>
        \E n \in 1 .. Len(InputLines) :
            /\ stdout = WriteAll(<<>>, SubSeq(InputLines, 1, n))
            /\ ChunkLines(chunks[1]) = SubSeq(InputLines, n + 1, Len(InputLines))
            /\ \A k \in 2 .. n : LineCmp(InputLines[k], lines[1]) <= 0
            /\ IF exhausted THEN n = Len(InputLines)
               ELSE /\ n < Len(InputLines)
                    /\ Peek(chunks[1]) = Some(InputLines[n + 1])
                    /\ LineCmp(InputLines[n + 1], lines[1]) = 1

\* drain_until returned false after it wrote two lines, the second equal to
\* the limit, from a file-backed run
C28_Witness ==
    /\ pc = "drain_ret" /\ ~exhausted
    /\ chunks[1].file
    /\ Len(OutputLines) = 2 /\ OutputLines[2] = lines[1]
    /\ LineCmp(OutputLines[1], OutputLines[2]) = -1

\* C29 as claimed: when N_WAY_MERGE batches have been dispatched as Sort
\* jobs since the previous round and the input is not exhausted, a merge
\* round is started.
C29_RoundAfterN ==
    [][(pc = "submit_sort" /\ pc' # pc /\ batches' = N_WAY_MERGE /\ ~exhausted)
           => pc' = "merge_round"]_vars

\* C29 amended: a merge round is started when, the input not being
\* exhausted, the batches dispatched since the previous round exceed
\* N_WAY_MERGE, that is with the batch N_WAY_MERGE + 1, or bytes exceeds
\* buffer_size, and in no other case; the round resets the counter, which
\* never exceeds N_WAY_MERGE + 1.
C29_RoundAfterNPlusOne ==
    [][/\ batches' <= N_WAY_MERGE + 1
       /\ (pc = "submit_sort" /\ pc' # pc) =>
              (pc' = "merge_round"
                   <=> (~exhausted /\ (OverBuffer(bytes) \/ batches' = N_WAY_MERGE + 1)))
       /\ (pc = "merge_round" /\ pc' # pc) => batches' = 0]_vars

\* a round is starting with the batch N_WAY_MERGE + 1, bytes not exceeding
\* buffer_size, and the registry holds the runs of the batches before
C29_Witness ==
    /\ pc = "merge_round"
    /\ batches = N_WAY_MERGE + 1
    /\ ~OverBuffer(bytes)
    /\ Len(chunks) >= N_WAY_MERGE

\* the job is a merge job
IsMergeJob(j) == j.kind \in {"Merge", "MergeFlush"}

\* the runs of the jobs js, in order
RECURSIVE RunsOf(_)
RunsOf(js) == IF js = <<>> THEN <<>> ELSE Head(js).runs \o RunsOf(Tail(js))

\* the run is neither merged nor flushed
Fresh(c) == ~is_flushed(c) /\ ~is_merged(c)

\* C30 as claimed: no merge job ever receives fewer or more than
\* N_WAY_MERGE runs, the runs left over by the grouping of a round being
\* put back into the registry.
C30_FullGroupsOnly ==
    \A i \in DOMAIN JobsAbout :
        IsMergeJob(JobsAbout[i]) => Len(JobsAbout[i].runs) = N_WAY_MERGE

\* C30 amended: a merge round puts back into the registry the merged and the
\* flushed runs only, untouched and in order; the other runs are partitioned
\* in order into merge jobs of N_WAY_MERGE runs each but the last one, which
\* receives the runs left over when there are any (1 to N_WAY_MERGE - 1); no
\* merge job ever receives no run or more than N_WAY_MERGE runs.
C30_GroupsAndLeftover ==
    [][/\ \A i \in DOMAIN JobsAbout' :
              IsMergeJob(JobsAbout'[i]) =>
                  Len(JobsAbout'[i].runs) \in 1..N_WAY_MERGE
       /\ (pc = "merge_round" /\ pc' # pc) =>
              /\ chunks' = SelectSeq(chunks, LAMBDA c : ~Fresh(c))
              /\ RunsOf(jobs') = SelectSeq(chunks, Fresh)
              /\ \A i \in DOMAIN jobs' :
                     /\ IsMergeJob(jobs'[i])
                     /\ i < Len(jobs') => Len(jobs'[i].runs) = N_WAY_MERGE]_vars

\* a round has built a job of a full group and a job of the runs left over
C30_Witness ==
    /\ pc = "submit_merge"
    /\ Len(jobs) = 2
    /\ Len(jobs[1].runs) = N_WAY_MERGE
    /\ Len(jobs[2].runs) \in 1..(N_WAY_MERGE - 1)


\* a step that ends a merge round: the round built no job, or its last job
\* is submitted
RoundEnds == pc \in {"merge_round", "submit_merge"} /\ pc' = "collect"

\* C31: every job a merge round builds is a MergeFlush job when bytes, the
\* bytes of the lines read since the previous round, exceeds buffer_size, and
\* a Merge job otherwise; the step that ends a round leaves bytes at zero,
\* and no other step lowers bytes.
C31_FlushWhenOverBuffer ==
    [][/\ (pc = "merge_round" /\ pc' # pc) =>
              \A i \in DOMAIN jobs' :
                  jobs'[i].kind = IF buffer_opt # 0 /\ bytes > buffer_opt
                                  THEN "MergeFlush" ELSE "Merge"
       /\ RoundEnds => bytes' = 0
       /\ bytes' < bytes => RoundEnds]_vars

\* a round that found bytes over buffer_size has built a MergeFlush job
C31_Witness ==
    /\ pc = "submit_merge"
    /\ OverBuffer(bytes)
    /\ jobs # <<>>
    /\ jobs[1].kind = "MergeFlush"

\* C32: every batch submitted as a Sort job holds at most batch_size lines;
\* a batch collected while the input is not exhausted holds at least one
\* line, and its collection stopped as soon as the line count reached
\* batch_size or bytes reached buffer_size: one of the two holds, and
\* neither held before the last line was read.
C32_BatchBounds ==
    /\ \A i \in DOMAIN JobsAbout :
           JobsAbout[i].kind = "Sort" => Len(JobsAbout[i].lines) <= batch_size
    /\ pc = "submit_sort" =>
           /\ Len(lines) <= batch_size
           /\ ~exhausted =>
                  /\ Len(lines) >= 1
                  /\ Len(lines) = batch_size \/ ~BelowBuffer(bytes)
                  /\ BelowBuffer(bytes - Len(lines[Len(lines)]))

\* sort() is inside submit() and the queue has no room: it waits for a slot
WaitsForSlot == pc \in {"submit_sort", "submit_merge"} /\ ~CanSend

\* the worker is at its push and the registry's Mutex is held by another
WaitsForRegistry(w) == wpc[w] = "push" /\ chunks_lock # 0

\* C33: a worker holds the registry's Mutex only in its push, never while
\* it sorts or merges; sort() holds it only in the drain of a round and in the
\* drain of the final merge, never inside submit(); so sort() never waits for
\* a queue slot while every worker waits for the Mutex.
C33_RegistryLockShort ==
    /\ \A w \in Workers : chunks_lock = w => wpc[w] = "pushing"
    /\ chunks_lock = MainThread => pc \in {"round_drain", "final_drain"}
    /\ chunks_lock \in {0, MainThread} \cup Workers
    /\ ~(WaitsForSlot /\ \A w \in Workers : WaitsForRegistry(w))

\* sort() waits for a queue slot while a worker holds the registry's Mutex
\* for its push
C33_Witness ==
    /\ WaitsForSlot
    /\ \E w \in Workers : chunks_lock = w /\ wpc[w] = "pushing"

\* the lines of the runs rs, run after run
RECURSIVE LinesOfRuns(_)
LinesOfRuns(rs) ==
    IF rs = <<>> THEN <<>> ELSE ChunkLines(Head(rs)) \o LinesOfRuns(Tail(rs))

\* C34: the final merge starts only after finish() has returned: at every
\* step of the final merge the input is read to its end, no batch and no
\* merge job is left to submit, no job is queued or held by a worker, every
\* worker has left its loop, and the heap built from the registry holds
\* every line read from the input but those already written to the output.
C34_FinalMergeAfterFinish ==
    pc = "final_merge" =>
        /\ exhausted /\ line_iter = <<>>
        /\ lines = <<>> /\ jobs = <<>> /\ queue = <<>>
        /\ \A w \in Workers : wpc[w] = "exited" /\ wjob[w] = NoJob
        /\ chunks = <<>>
        /\ BagOf(LinesOfRuns(heap) \o OutputLines) = BagOf(InputLines)

\* the final merge starts on a heap of several runs that came out of Sort
\* and merge jobs of two workers, nothing being written yet
C34_Witness ==
    /\ pc = "final_merge"
    /\ stdout = <<>>
    /\ Len(heap) >= 2
    /\ sort_threads = 2
    /\ \E i \in DOMAIN heap : is_merged(heap[i])
    /\ \E i \in DOMAIN heap : ~is_merged(heap[i])
    /\ LinesOfRuns(heap) # <<>>

\* C35: once finish() has dropped the sender, the jobs still queued are run,
\* every worker thread leaves its receive loop and exits, and finish()
\* returns, when the jobs return and the threads are scheduled fairly.
C35_FinishTerminates ==
    (pc = "ex_join") ~> (pc = "ex_done" /\ queue = <<>>
                             /\ \A w \in Workers : wpc[w] = "exited")

\* finish() has dropped the sender of a pool of two workers while a worker
\* runs a job and another job waits in the queue
C35_Witness ==
    /\ pc = "ex_join"
    /\ sort_threads = 2
    /\ queue # <<>>
    /\ \E w \in Workers : wpc[w] = "run"
    /\ joined = 0

\* C36: for every input, batch size, buffer size and number of threads,
\* sort() returns when its threads are scheduled fairly: the input is read
\* to its end, also when bytes lands exactly on buffer_size, no submit()
\* blocks for ever and the final merge empties its heap.
C36_SortTerminates == <>(pc = "done" /\ line_iter = <<>> /\ heap = <<>>)

\* bytes has landed exactly on buffer_size with input left to read, and
\* sort() waits in submit() for a slot of the full queue
C36_Witness ==
    /\ pc = "submit_sort"
    /\ ~exhausted
    /\ line_iter # <<>>
    /\ bytes = buffer_opt
    /\ lines = <<>>
    /\ ~CanSend

\* the lines a job holds: its batch, or the lines of its runs
JobLinesOf(j) == j.lines \o LinesOfRuns(j.runs)

\* the lines of the jobs js, job after job
RECURSIVE LinesOfJobs(_)
LinesOfJobs(js) ==
    IF js = <<>> THEN <<>> ELSE JobLinesOf(Head(js)) \o LinesOfJobs(Tail(js))

\* the lines held by sort(): the batch collected, the jobs not yet
\* submitted, queued or running, and the runs of the registry
LinesHeld == lines \o LinesOfJobs(JobsAbout) \o LinesOfRuns(chunks)

\* the lines read from the input so far
LinesRead == SplitAll(SubSeq(input, 1, Len(input) - Len(line_iter)))

\* C37: before the final merge the lines of the batch being collected, of
\* the inputs of the jobs built, queued and running, and of the runs of the
\* registry are, as a multiset, the lines read from the input so far; and a
\* job that runs leaves the other runs alone and deposits exactly one run,
\* which holds exactly the lines of its inputs.
C37_LinesConserved ==
    /\ [](pc \notin {"final_merge", "done"} => BagOf(LinesHeld) = BagOf(LinesRead))
    /\ [][\A w \in Workers :
              (wpc[w] = "run" /\ wpc'[w] # "run") =>
                  /\ Len(chunks') = Len(chunks) + 1
                  /\ SubSeq(chunks', 1, Len(chunks)) = chunks
                  /\ BagOf(ChunkLines(chunks'[Len(chunks')])) = BagOf(JobLinesOf(wjob[w]))
                  /\ wjob'[w] = NoJob]_vars

\* a Merge job of runs that hold lines is queued while a batch with a line
\* waits to be submitted and the registry holds a run
C37_Witness ==
    /\ pc = "submit_sort"
    /\ lines # <<>>
    /\ chunks # <<>>
    /\ \E i \in DOMAIN queue : IsMergeJob(queue[i]) /\ JobLinesOf(queue[i]) # <<>>

\* the run carries the marks of the output of a Merge or MergeFlush job
FromMerge(c) == c.merged \/ c.file

\* the runs of the registry that carry these marks, in order
MergedRuns(rs) == SelectSeq(rs, FromMerge)

\* C38: the runs that came out of Merge and MergeFlush jobs, and no run that
\* came out of a Sort job, carry the merged flag or are file-backed; no merge
\* job ever holds such a run; a merge round puts them back into the registry
\* unchanged, in order, and they stay there unchanged until the final merge
\* drains the registry.
C38_MergedRunsKept ==
    /\ [](\A i \in DOMAIN JobsAbout :
              \A k \in DOMAIN JobsAbout[i].runs : ~FromMerge(JobsAbout[i].runs[k]))
    /\ [][/\ \A w \in Workers :
                 (wpc[w] = "run" /\ wpc'[w] # "run") =>
                     (FromMerge(chunks'[Len(chunks')]) <=> IsMergeJob(wjob[w]))
          /\ (pc = "merge_round" /\ pc' # pc) => chunks' = MergedRuns(chunks)
          /\ (pc # "final_collect" \/ pc' = pc) =>
                 /\ Len(MergedRuns(chunks')) >= Len(MergedRuns(chunks))
                 /\ SubSeq(MergedRuns(chunks'), 1, Len(MergedRuns(chunks)))
                        = MergedRuns(chunks)]_vars

\* a round has put back a merged run that holds lines and has built a merge
\* job of the runs that came out of Sort jobs
C38_Witness ==
    /\ pc = "submit_merge"
    /\ jobs # <<>>
    /\ chunks # <<>>
    /\ \E i \in DOMAIN chunks : FromMerge(chunks[i]) /\ ChunkLines(chunks[i]) # <<>>

\* the payloads of the Chunks among the items its, joined in order with one
\* delimiter byte between consecutive Chunks
RECURSIVE JoinChunks(_, _)
JoinChunks(its, first) ==
    IF its = <<>> THEN <<>>
    ELSE IF Head(its).kind # "Chunk" THEN JoinChunks(Tail(its), first)
    ELSE (IF first THEN <<>> ELSE <<reader.delimiter>>)
             \o Head(its).data \o JoinChunks(Tail(its), FALSE)

Joined == JoinChunks(items, TRUE)

\* C39: while next() has returned no Bail and no error, the Chunks returned,
\* joined in order with one delimiter byte between consecutive Chunks, are
\* the first bytes of the input; once the Chunk of the end of the input is
\* returned they are the input, or the input without its final byte, which
\* is then a delimiter.
C39_ChunksRebuildInput ==
    (BailItems = {} /\ ErrItems = {}) =>
        /\ Len(Joined) <= Len(input)
        /\ Joined = SubSeq(input, 1, Len(Joined))
        /\ (\E i \in ChunkItems : items[i].eof) =>
               \/ Joined = input
               \/ /\ Len(Joined) = Len(input) - 1
                  /\ input[Len(input)] = reader.delimiter

\* a stream returned in three Chunks, the first cut inside the full buffer
\* with bytes carried over to the second call, the last losing the final
\* delimiter
C39_Witness ==
    /\ Cardinality(ChunkItems) = 3
    /\ BailItems = {} /\ ErrItems = {}
    /\ items[3].kind = "Chunk" /\ items[3].eof
    /\ Len(items[1].data) + 1 < reader.max_chunk_size
    /\ Len(Joined) = Len(input) - 1
    /\ \A i \in 1 .. 3 : items[i].data # <<>>

=============================================================================
